---- MODULE Spec2Model ----
(***************************************************************************)
(* Model of the interactive diagram canvas of src/src/diagram.ts: the      *)
(* Rectangle class (hit testing) and the Chart class (entity and           *)
(* connection maps, view transform, pointer/wheel gesture handlers).       *)
(*                                                                         *)
(* Numbers.  Every number of the program is a JavaScript double.  The      *)
(* model computes with exact values: a number is a record [n, d] that is   *)
(* the reduced fraction n/d when d > 0, +Infinity or -Infinity when d = 0  *)
(* and n = 1 or n = -1, and NaN when d = 0 and n = 0.  Arithmetic and      *)
(* comparisons follow IEEE-754 on these values without rounding.  The sign *)
(* of a zero is not tracked: the only divisors in the program are the      *)
(* scale and the pinch start distance, and the inputs of the model keep    *)
(* both from ever being negative (see WheelDeltas), so a zero divisor is   *)
(* always +0.                                                              *)
(***************************************************************************)
EXTENDS Integers, Sequences, FiniteSets, TLC

VARIABLES
    objs,          \* the Rectangle objects ever constructed, by allocation order
    rectangles,    \* Chart.rectangles: insertion-ordered map id -> Rectangle
    connections,   \* Chart.connections: insertion-ordered map id -> Connection
    transform,     \* Chart.transform
    pointers,      \* Chart.pointers: insertion-ordered map pointerId -> Point
    draggingRect,  \* Chart.draggingRect (<<>> when undefined)
    resizingRect,  \* Chart.resizingRect (<<>> when undefined)
    panning,       \* Chart.panning      (<<>> when undefined)
    pinch,         \* Chart.pinch        (<<>> when undefined)
    cursor,        \* canvas.style.cursor
    ret,           \* value returned by the last operation called
    last,          \* the last operation or event handled, and the branch it took
    nDown,         \* pointer-down events so far (pointer ids are handed out in order)
    nEv,           \* operations and events handled so far
    nConn,         \* connections ever created (source of fresh connection ids)
    ctx,           \* Chart.ctx: what canvas.getContext("2d") gave the constructor
    listeners,     \* per event type, the listeners of the chart on the canvas
    currentRectDataMap  \* the webview's insertion-ordered map rectId -> RectData

vars == <<nEv, objs, rectangles, connections, transform, pointers, draggingRect,
          resizingRect, panning, pinch, cursor, ret, last, nDown, nConn, ctx,
          listeners, currentRectDataMap>>

-----------------------------------------------------------------------------
(* Numbers *)

IAbs(i) == IF i < 0 THEN -i ELSE i

Sgn(i) == IF i < 0 THEN -1 ELSE IF i > 0 THEN 1 ELSE 0

RECURSIVE GCD(_, _)
GCD(a, b) == IF b = 0 THEN a ELSE GCD(b, a % b)

\* The number n/d (d >= 0), reduced; d = 0 gives an infinity or NaN.
Norm(n, d) ==
    IF d = 0 THEN [n |-> Sgn(n), d |-> 0]
    ELSE LET g == GCD(IAbs(n), d) IN [n |-> n \div g, d |-> d \div g]

I(i) == [n |-> i, d |-> 1]

Frac(n, d) == Norm(n, d)

NaN == [n |-> 0, d |-> 0]

Infinity == [n |-> 1, d |-> 0]

IsNaN(a) == a.d = 0 /\ a.n = 0

IsInf(a) == a.d = 0 /\ a.n # 0

IsFinite(a) == a.d # 0

Neg(a) == [n |-> -a.n, d |-> a.d]

Add(a, b) ==
    IF a.d = 0 /\ b.d = 0 THEN (IF a.n = b.n THEN a ELSE NaN)
    ELSE IF a.d = 0 THEN a
    ELSE IF b.d = 0 THEN b
    ELSE Norm(a.n * b.d + b.n * a.d, a.d * b.d)

Sub(a, b) == Add(a, Neg(b))

Mul(a, b) == Norm(a.n * b.n, a.d * b.d)

Div(a, b) ==
    IF b.d # 0 /\ b.n = 0 THEN Norm(a.n, 0)
    ELSE Norm(a.n * b.d * Sgn(b.n), a.d * IAbs(b.n))

NAbs(a) == [n |-> IAbs(a.n), d |-> a.d]

Lt(a, b) ==
    /\ ~IsNaN(a)
    /\ ~IsNaN(b)
    /\ IF a.d = 0 /\ b.d = 0 THEN a.n < b.n ELSE a.n * b.d < b.n * a.d

Gt(a, b) == Lt(b, a)

\* JavaScript ===, <= and >= on numbers: false whenever an operand is NaN.
Eq(a, b) == ~IsNaN(a) /\ ~IsNaN(b) /\ a = b

Le(a, b) == Lt(a, b) \/ Eq(a, b)

Ge(a, b) == Le(b, a)

RECURSIVE SqrtSearch(_, _, _)
SqrtSearch(n, lo, hi) ==
    IF lo >= hi THEN lo
    ELSE LET mid == (lo + hi + 1) \div 2
         IN IF mid * mid <= n THEN SqrtSearch(n, mid, hi)
            ELSE SqrtSearch(n, lo, mid - 1)

\* Integer square root (exact on perfect squares).
ISqrt(n) == SqrtSearch(n, 0, n)

\* Math.sqrt: NaN for NaN and for a negative number, Infinity for Infinity,
\* and the root of a number that is the square of a rational.  The root of
\* any other number is irrational and has no value here: evaluating it
\* stops the check instead of continuing with a rounded value.
Sqrt(a) ==
    IF IsNaN(a) \/ Lt(a, I(0)) THEN NaN
    ELSE IF IsInf(a) THEN a
    ELSE CHOOSE r \in {Norm(ISqrt(a.n), ISqrt(a.d))} : Mul(r, r) = a

\* Math.hypot: Infinity if an argument is infinite, else NaN if one is NaN.
Hypot(dx, dy) ==
    IF IsInf(dx) \/ IsInf(dy) THEN Infinity
    ELSE IF IsNaN(dx) \/ IsNaN(dy) THEN NaN
    ELSE Sqrt(Add(Mul(dx, dx), Mul(dy, dy)))

P(x, y) == [x |-> I(x), y |-> I(y)]

-----------------------------------------------------------------------------
(* Program constants *)

edgeThreshold == 6

padding == 8

lineHeight == 18

titleFontSize == 16

minWidth == 50

defaultWidth == 200

defaultHeight == 120

\* 1.2, the title line height as a multiple of the title font size
TitleLineFactor == Frac(6, 5)

\* 0.001, the wheel delta multiplier
WheelStep == Frac(1, 1000)

Unset == <<>>

IsSet(g) == g # <<>>

-----------------------------------------------------------------------------
(* Inputs of the model *)

\* Bound on the length of a run: the number of operations called and events
\* handled.
MaxEvents == 4

\* canvas.width and canvas.height
Canvas == [width |-> 280, height |-> 240]

\* Screen positions of pointer and wheel events: four points of a cross whose
\* pairwise distances are all integers (arms 160 and 120, diagonal 200),
\* placed so that, with the rectangle positions of Randoms, its points fall
\* on corners, edges, the inside and the outside of a default-sized
\* rectangle, and a move between two of them can shrink a rectangle below
\* its minimum size.
Pts == {P(200, 120), P(40, 120), P(200, 0), P(200, 240)}

\* Values Math.random() returns (in [0, 1)).
Randoms == {I(0), Frac(1, 2)}

\* WheelEvent.deltaY values: zoom in by 2, zoom out by 1/2, and the delta
\* that takes the factor 1 - deltaY/1000 to zero.  No delta above 1000 is
\* used, so the scale never becomes negative (see the note on zero above).
WheelDeltas == {-1000, 500, 1000}

\* The pointer id of a pointer that is not down (a hovering mouse).
HoverId == 0

RectIds == {"x", "y"}

EntryIds == {"e1", "e2"}

\* RectData payloads callers pass.
RectDatas ==
    { [id |-> "x", title |-> "X", entries |-> <<"e1", "e2">>],
      [id |-> "x", title |-> "X2", entries |-> <<>>],
      [id |-> "y", title |-> "Y", entries |-> <<"e2">>] }

\* Endpoints callers pass; entryId "" stands for an absent entryId.
Endpoints ==
    { [rectId |-> "x", entryId |-> "e1"],
      [rectId |-> "y", entryId |-> "e2"],
      [rectId |-> "y", entryId |-> ""] }

-----------------------------------------------------------------------------
(* Insertion-ordered maps (JavaScript Map), as sequences of entries *)

Keys(m, f) == {m[i][f] : i \in 1..Len(m)}

\* Index of the entry whose field f is k (0 when absent).
IndexOf(m, f, k) ==
    IF k \in Keys(m, f) THEN CHOOSE i \in 1..Len(m) : m[i][f] = k ELSE 0

\* Map.set: replace in place when the key is present, append otherwise.
MapSet(m, f, e) ==
    IF e[f] \in Keys(m, f)
    THEN [i \in 1..Len(m) |-> IF m[i][f] = e[f] THEN e ELSE m[i]]
    ELSE Append(m, e)

\* A variant of MapDelete that drops the oldest entry when the key is absent.
MapDeleteOrOldest(m, f, k) ==
    IF k \in Keys(m, f) THEN SelectSeq(m, LAMBDA e : e[f] # k)
    ELSE SubSeq(m, 2, Len(m))

\* Map.delete
MapDelete(m, f, k) == SelectSeq(m, LAMBDA e : e[f] # k)

Reverse(s) == [i \in 1..Len(s) |-> s[Len(s) + 1 - i]]

-----------------------------------------------------------------------------
(* Rectangle *)

HitParts ==
    {"inside", "left", "right", "top", "bottom",
     "top-left", "top-right", "bottom-left", "bottom-right"}

\* The value null of getHitPart and hitTest
Null == "null"

\* A variant of Rectangle.getHitPart that tests the threshold-extended
\* ranges for "inside" before the edge and corner bands.
getHitPartInsideFirst(r, px, py) ==
    LET t == I(edgeThreshold)
        leftDist == NAbs(Sub(px, r.x))
        rightDist == NAbs(Sub(px, Add(r.x, r.width)))
        topDist == NAbs(Sub(py, r.y))
        bottomDist == NAbs(Sub(py, Add(r.y, r.height)))
        inX == Gt(px, Sub(r.x, t)) /\ Lt(px, Add(Add(r.x, r.width), t))
        inY == Gt(py, Sub(r.y, t)) /\ Lt(py, Add(Add(r.y, r.height), t))
        nearLeft == Lt(leftDist, t) /\ inY
        nearRight == Lt(rightDist, t) /\ inY
        nearTop == Lt(topDist, t) /\ inX
        nearBottom == Lt(bottomDist, t) /\ inX
    IN  IF inX /\ inY /\ ~(nearLeft /\ nearTop) /\ ~(nearRight /\ nearBottom)
        THEN "inside"
        ELSE IF nearLeft /\ nearTop THEN "top-left"
        ELSE IF nearRight /\ nearTop THEN "top-right"
        ELSE IF nearLeft /\ nearBottom THEN "bottom-left"
        ELSE IF nearRight /\ nearBottom THEN "bottom-right"
        ELSE IF nearLeft THEN "left"
        ELSE IF nearRight THEN "right"
        ELSE IF nearTop THEN "top"
        ELSE IF nearBottom THEN "bottom"
        ELSE Null

\* Rectangle.getHitPart
getHitPart(r, px, py) ==
    LET t == I(edgeThreshold)
        leftDist == NAbs(Sub(px, r.x))
        rightDist == NAbs(Sub(px, Add(r.x, r.width)))
        topDist == NAbs(Sub(py, r.y))
        bottomDist == NAbs(Sub(py, Add(r.y, r.height)))
        inX == Gt(px, Sub(r.x, t)) /\ Lt(px, Add(Add(r.x, r.width), t))
        inY == Gt(py, Sub(r.y, t)) /\ Lt(py, Add(Add(r.y, r.height), t))
        nearLeft == Lt(leftDist, t) /\ inY
        nearRight == Lt(rightDist, t) /\ inY
        nearTop == Lt(topDist, t) /\ inX
        nearBottom == Lt(bottomDist, t) /\ inX
    IN  IF nearLeft /\ nearTop THEN "top-left"
        ELSE IF nearRight /\ nearTop THEN "top-right"
        ELSE IF nearLeft /\ nearBottom THEN "bottom-left"
        ELSE IF nearRight /\ nearBottom THEN "bottom-right"
        ELSE IF nearLeft THEN "left"
        ELSE IF nearRight THEN "right"
        ELSE IF nearTop THEN "top"
        ELSE IF nearBottom THEN "bottom"
        ELSE IF inX /\ inY THEN "inside"
        ELSE Null

\* CURSOR_MAP
CURSOR_MAP(part) ==
    CASE part = "inside" -> "move"
      [] part \in {"left", "right"} -> "ew-resize"
      [] part \in {"top", "bottom"} -> "ns-resize"
      [] part \in {"top-left", "bottom-right"} -> "nwse-resize"
      [] part \in {"top-right", "bottom-left"} -> "nesw-resize"

\* part.includes(side) for side in left, right, top, bottom
PartIncludes(part, side) ==
    part \in {side, "top-" \o side, "bottom-" \o side, side \o "-left", side \o "-right"}

-----------------------------------------------------------------------------
(* Chart: queries *)

\* Chart.calculateMinimumHeight
calculateMinimumHeight(r, scale) ==
    LET tfs == Div(I(titleFontSize), scale)
        titleLineHeight == Mul(tfs, TitleLineFactor)
        entryLineHeight == Div(I(lineHeight), scale)
        pad == Div(I(padding), scale)
        contentHeight ==
            Add(titleLineHeight, Mul(I(Len(r.data.entries)), entryLineHeight))
    IN  Add(contentHeight, Mul(pad, I(2)))

\* Chart.screenToWorld
screenToWorld(tr, x, y) ==
    [x |-> Div(Sub(x, tr.translateX), tr.scale),
     y |-> Div(Sub(y, tr.translateY), tr.scale)]

\* The transform Chart.draw hands to the canvas, setTransform(scale, 0, 0,
\* scale, translateX, translateY), applied to a world point: the screen
\* point where the canvas paints it.
renderTransform(tr, x, y) ==
    [x |-> Add(Mul(x, tr.scale), tr.translateX),
     y |-> Add(Mul(y, tr.scale), tr.translateY)]

\* The first entry of a sequence of map entries whose rectangle is hit.
RECURSIVE FirstHit(_, _, _, _)
FirstHit(os, entries, x, y) ==
    IF entries = <<>> THEN Unset
    ELSE LET part == getHitPart(os[Head(entries).ref], x, y)
         IN IF part # Null THEN <<[rect |-> Head(entries).ref, part |-> part]>>
            ELSE FirstHit(os, Tail(entries), x, y)

\* A variant of Chart.hitTest that searches in insertion order.
hitTestInInsertionOrder(os, rects, x, y) == FirstHit(os, rects, x, y)

\* Chart.hitTest: the last-inserted rectangle with a hit part, or null (<<>>).
hitTest(os, rects, x, y) == FirstHit(os, Reverse(rects), x, y)

\* A variant of Chart.updateCursor that keeps the cursor during a pinch or a
\* pan only.
updateCursorUnlessPanning(os, rects, tr, pin, pan, rsz, drg, cur, sp) ==
    IF IsSet(pin) \/ IsSet(pan) THEN cur
    ELSE LET w == screenToWorld(tr, sp.x, sp.y)
             hit == hitTest(os, rects, w.x, w.y)
         IN IF IsSet(hit) THEN CURSOR_MAP(hit[1].part) ELSE "default"

\* Chart.updateCursor, given the gesture records it reads
updateCursor(os, rects, tr, pin, pan, rsz, drg, cur, sp) ==
    IF IsSet(pin) \/ IsSet(pan) THEN cur
    ELSE IF IsSet(rsz) \/ IsSet(drg) THEN cur
    ELSE LET w == screenToWorld(tr, sp.x, sp.y)
             hit == hitTest(os, rects, w.x, w.y)
         IN IF IsSet(hit) THEN CURSOR_MAP(hit[1].part) ELSE "default"

\* Chart.getConnections: the values of Chart.connections, in insertion order.
getConnections(conns) == conns

\* A variant of getConnectionsForRect that matches sideA only.
getConnectionsForRectBySideA(conns, rectId) ==
    SelectSeq(getConnections(conns), LAMBDA c : c.sideA.rectId = rectId)

\* Chart.getConnectionsForRect
getConnectionsForRect(conns, rectId) ==
    SelectSeq(getConnections(conns),
              LAMBDA c : c.sideA.rectId = rectId \/ c.sideB.rectId = rectId)

\* Array.findIndex over the entries of a rectangle: the 0-based index of the
\* first entry with the given id, or -1.
FindEntryIndex(entries, entryId) ==
    IF \E i \in 1..Len(entries) : entries[i] = entryId
    THEN (CHOOSE i \in 1..Len(entries) :
              /\ entries[i] = entryId
              /\ \A j \in 1..(i - 1) : entries[j] # entryId) - 1
    ELSE -1

\* A variant of getEndpointPosition whose fallback for an unresolved entry
\* is the rectangle's top-left corner instead of its centre.
getEndpointPositionAtCorner(os, rects, tr, ep, isFrom) ==
    IF ep.rectId \notin Keys(rects, "key") THEN [x |-> I(0), y |-> I(0)]
    ELSE LET r == os[rects[IndexOf(rects, "key", ep.rectId)].ref]
             scale == tr.scale
             pad == Div(I(padding), scale)
             tfs == Div(I(titleFontSize), scale)
             titleLineHeight == Mul(tfs, TitleLineFactor)
             entryLineHeight == Div(I(lineHeight), scale)
             titleY == Add(r.y, pad)
             idx == FindEntryIndex(r.data.entries, ep.entryId)
         IN  IF ep.entryId # "" /\ idx >= 0
             THEN [x |-> IF isFrom THEN Sub(Add(r.x, r.width), pad)
                         ELSE Add(r.x, pad),
                   y |-> Add(Add(Add(titleY, titleLineHeight),
                                 Mul(I(idx), entryLineHeight)),
                             Div(entryLineHeight, I(2)))]
             ELSE [x |-> r.x, y |-> r.y]

\* Chart.getEndpointPosition: the world point at which an endpoint is drawn.
\* An entryId of "" stands for an absent entryId; both are falsy.
getEndpointPosition(os, rects, tr, ep, isFrom) ==
    IF ep.rectId \notin Keys(rects, "key") THEN [x |-> I(0), y |-> I(0)]
    ELSE LET r == os[rects[IndexOf(rects, "key", ep.rectId)].ref]
             scale == tr.scale
             pad == Div(I(padding), scale)
             tfs == Div(I(titleFontSize), scale)
             titleLineHeight == Mul(tfs, TitleLineFactor)
             entryLineHeight == Div(I(lineHeight), scale)
             titleY == Add(r.y, pad)
             idx == FindEntryIndex(r.data.entries, ep.entryId)
         IN  IF ep.entryId # "" /\ idx >= 0
             THEN [x |-> IF isFrom THEN Sub(Add(r.x, r.width), pad)
                         ELSE Add(r.x, pad),
                   y |-> Add(Add(Add(titleY, titleLineHeight),
                                 Mul(I(idx), entryLineHeight)),
                             Div(entryLineHeight, I(2)))]
             ELSE [x |-> Add(r.x, Div(r.width, I(2))),
                   y |-> Add(r.y, Div(r.height, I(2)))]

\* A variant of drawConnections that always draws sideA as the from side.
drawConnectionsFromSideA(os, rects, conns, tr) ==
    [i \in 1..Len(getConnections(conns)) |->
        LET conn == getConnections(conns)[i]
        IN  [fromPos |-> getEndpointPosition(os, rects, tr, conn.sideA, TRUE),
             toPos |-> getEndpointPosition(os, rects, tr, conn.sideB, FALSE)]]

\* Chart.drawConnections: the end points of the curve stroked for each
\* connection, in the order drawn.
drawConnections(os, rects, conns, tr) ==
    [i \in 1..Len(getConnections(conns)) |->
        LET conn == getConnections(conns)[i]
            a1 == getEndpointPosition(os, rects, tr, conn.sideA, TRUE)
            b1 == getEndpointPosition(os, rects, tr, conn.sideB, FALSE)
            dx1 == NAbs(Sub(a1.x, b1.x))
            a2 == getEndpointPosition(os, rects, tr, conn.sideA, FALSE)
            b2 == getEndpointPosition(os, rects, tr, conn.sideB, TRUE)
            dx2 == NAbs(Sub(a2.x, b2.x))
        IN  [fromPos |-> IF Le(dx1, dx2) THEN a1 ELSE a2,
             toPos |-> IF Le(dx1, dx2) THEN b1 ELSE b2]]

\* Chart.drawRectangle for each value of Chart.rectangles, in insertion
\* order: the box filled and stroked for each entity.
drawRectangles(os, rects) ==
    [i \in 1..Len(rects) |->
        [op |-> "box", id |-> rects[i].key, x |-> os[rects[i].ref].x,
         y |-> os[rects[i].ref].y, width |-> os[rects[i].ref].width,
         height |-> os[rects[i].ref].height]]

\* The curves Chart.drawConnections strokes, as drawing operations.
drawCurves(os, rects, conns, tr) ==
    LET curves == drawConnections(os, rects, conns, tr)
    IN  [i \in 1..Len(conns) |->
            [op |-> "curve", id |-> conns[i].id,
             fromPos |-> curves[i].fromPos, toPos |-> curves[i].toPos]]

\* The start of Chart.draw: the whole canvas is cleared under the identity
\* transform, then the pan and zoom transform is set.
drawClear(tr) ==
    << [op |-> "setTransform", scale |-> I(1), translateX |-> I(0),
        translateY |-> I(0)],
       [op |-> "clearRect", x |-> 0, y |-> 0, width |-> Canvas.width,
        height |-> Canvas.height],
       [op |-> "setTransform", scale |-> tr.scale, translateX |-> tr.translateX,
        translateY |-> tr.translateY] >>

\* A variant of Chart.draw that paints the entities before the connections.
drawEntitiesFirst(os, rects, conns, tr) ==
    drawClear(tr) \o drawRectangles(os, rects) \o drawCurves(os, rects, conns, tr)

\* Chart.draw: the sequence of drawing operations of one call.
draw(os, rects, conns, tr) ==
    drawClear(tr) \o drawCurves(os, rects, conns, tr) \o drawRectangles(os, rects)

-----------------------------------------------------------------------------
(* Chart: the computations of the event handlers *)

\* The values of Chart.pointers, in insertion order.
PointerValues(ptrs) == [i \in 1..Len(ptrs) |-> ptrs[i].pos]

\* A variant of PinchStart that takes the first pointer as the pivot instead
\* of the midpoint.
PinchStartAtFirstPointer(pts, scale) ==
    LET dx == Sub(pts[2].x, pts[1].x)
        dy == Sub(pts[2].y, pts[1].y)
    IN  [startDist |-> Hypot(dx, dy),
         startScale |-> scale,
         mid |-> [x |-> pts[1].x, y |-> pts[1].y]]

\* handlePointerDown, pinch start: the record stored in Chart.pinch.
PinchStart(pts, scale) ==
    LET dx == Sub(pts[2].x, pts[1].x)
        dy == Sub(pts[2].y, pts[1].y)
    IN  [startDist |-> Hypot(dx, dy),
         startScale |-> scale,
         mid |-> [x |-> Div(Add(pts[1].x, pts[2].x), I(2)),
                  y |-> Div(Add(pts[1].y, pts[2].y), I(2))]]

\* handlePointerDown, hit part inside: the record stored in Chart.draggingRect.
DragStart(ref, rect, sp) ==
    [rect |-> ref, start |-> sp, initPos |-> [x |-> rect.x, y |-> rect.y]]

\* A variant of ResizeStart that records the initial width and height
\* exchanged.
ResizeStartExchanged(ref, rect, part, sp) ==
    [rect |-> ref, part |-> part, start |-> sp,
     init |-> [x |-> rect.x, y |-> rect.y, w |-> rect.height, h |-> rect.width]]

\* handlePointerDown, hit part an edge or corner: the record stored in
\* Chart.resizingRect.
ResizeStart(ref, rect, part, sp) ==
    [rect |-> ref, part |-> part, start |-> sp,
     init |-> [x |-> rect.x, y |-> rect.y, w |-> rect.width, h |-> rect.height]]

\* handlePointerDown, no hit: the record stored in Chart.panning.
PanStart(sp, tr) == [start |-> sp, initTrans |-> tr]

\* A variant of PinchAfterUp that keeps the pinch record until no pointer
\* remains.
PinchAfterUpWhenNone(ptrs, pin) == IF Len(ptrs) < 1 THEN Unset ELSE pin

\* handlePointerUp: Chart.pinch once the pointer is deleted.
PinchAfterUp(ptrs, pin) == IF Len(ptrs) < 2 THEN Unset ELSE pin

\* handlePointerMove, pinch branch: the new transform.
PinchMove(pin, pts, tr) ==
    LET dx == Sub(pts[2].x, pts[1].x)
        dy == Sub(pts[2].y, pts[1].y)
        dist == Hypot(dx, dy)
        scale == Mul(Div(dist, pin.startDist), pin.startScale)
        w0 == screenToWorld(tr, pin.mid.x, pin.mid.y)
    IN  [scale |-> scale,
         translateX |-> Sub(pin.mid.x, Mul(w0.x, scale)),
         translateY |-> Sub(pin.mid.y, Mul(w0.y, scale))]

\* handlePointerMove, resize branch: the rectangle after the move.
ResizeMove(rect, part, start, init, sp, scale) ==
    LET dx == Div(Sub(sp.x, start.x), scale)
        dy == Div(Sub(sp.y, start.y), scale)
        left == PartIncludes(part, "left")
        right == PartIncludes(part, "right")
        top == PartIncludes(part, "top")
        bottom == PartIncludes(part, "bottom")
        x1 == IF left THEN Add(init.x, dx) ELSE rect.x
        w1 == IF right THEN Add(init.w, dx)
              ELSE IF left THEN Sub(init.w, dx) ELSE rect.width
        y1 == IF top THEN Add(init.y, dy) ELSE rect.y
        h1 == IF bottom THEN Add(init.h, dy)
              ELSE IF top THEN Sub(init.h, dy) ELSE rect.height
        minH == calculateMinimumHeight(rect, scale)
        minW == Div(I(minWidth), scale)
        x2 == IF Lt(w1, minW) /\ left
              THEN Sub(Add(rect.x, rect.width), minW) ELSE x1
        w2 == IF Lt(w1, minW) THEN minW ELSE w1
        y2 == IF Lt(h1, minH) /\ top
              THEN Sub(Add(rect.y, rect.height), minH) ELSE y1
        h2 == IF Lt(h1, minH) THEN minH ELSE h1
    IN  [rect EXCEPT !.x = x2, !.y = y2, !.width = w2, !.height = h2]

\* handlePointerMove, drag branch: the rectangle after the move.
DragMove(rect, start, initPos, sp, scale) ==
    LET dx == Div(Sub(sp.x, start.x), scale)
        dy == Div(Sub(sp.y, start.y), scale)
    IN  [rect EXCEPT !.x = Add(initPos.x, dx), !.y = Add(initPos.y, dy)]

\* handlePointerMove, pan branch: the new transform.
PanMove(pan, sp, tr) ==
    [tr EXCEPT !.translateX = Add(pan.initTrans.translateX, Sub(sp.x, pan.start.x)),
               !.translateY = Add(pan.initTrans.translateY, Sub(sp.y, pan.start.y))]

\* handleWheel: the new transform.
WheelZoom(tr, sp, deltaY) ==
    LET delta == Mul(Neg(I(deltaY)), WheelStep)
        newScale == Mul(tr.scale, Add(I(1), delta))
        wx == Div(Sub(sp.x, tr.translateX), tr.scale)
        wy == Div(Sub(sp.y, tr.translateY), tr.scale)
    IN  [scale |-> newScale,
         translateX |-> Sub(sp.x, Mul(wx, newScale)),
         translateY |-> Sub(sp.y, Mul(wy, newScale))]

\* addRectangle: the Rectangle constructed, for the two Math.random() values.
NewRectangle(data, tr, rx, ry) ==
    [data |-> data,
     x |-> Mul(rx, Sub(Div(I(Canvas.width), tr.scale), I(defaultWidth))),
     y |-> Mul(ry, Sub(Div(I(Canvas.height), tr.scale), I(defaultHeight))),
     width |-> I(defaultWidth),
     height |-> I(defaultHeight)]

\* Rectangle.id
RectId(r) == r.data.id

-----------------------------------------------------------------------------
(* Initial state: the outcome of new Chart(canvas) *)

\* The event types Chart.initEvents installs a listener for.
EventTypes == {"pointerdown", "pointermove", "pointerup", "pointercancel", "wheel"}

\* The canvas before a chart is constructed on it: no listener of a chart.
NoListeners == [type \in EventTypes |-> 0]

\* Chart.initEvents: one more listener on the canvas for each event type
\* (addEventListener with a new closure each time never deduplicates).
initEvents(ls) == [type \in EventTypes |-> ls[type] + 1]

\* A variant of the constructor that calls initEvents before it looks at the
\* drawing context.
ListenersInstalledFirst(c) == initEvents(NoListeners)

\* The listeners on the canvas after the constructor has run with drawing
\* context c: it throws before initEvents when there is no context (null).
ListenersAfterConstructor(c) ==
    IF c = Null THEN NoListeners ELSE initEvents(NoListeners)

\* Values of canvas.style.cursor before the chart is constructed: the empty
\* string of a fresh canvas, and a cursor the page has set.
CanvasCursors == {"", "crosshair"}

\* The state after new Chart(canvas) where canvas.getContext("2d") is c and
\* canvas.style.cursor is cur: the field initialisers have run, and the
\* constructor has either thrown before it reached initEvents and
\* updateCursor (no Chart is handed to the caller, the canvas is as it was)
\* or completed, with updateCursor finding no entity under its dummy point.
NewChart(c, cur) ==
    /\ ctx = c
    /\ listeners = ListenersAfterConstructor(c)
    /\ currentRectDataMap = <<>>
    /\ objs = <<>>
    /\ rectangles = <<>>
    /\ connections = <<>>
    /\ transform = [scale |-> I(1), translateX |-> I(0), translateY |-> I(0)]
    /\ pointers = <<>>
    /\ draggingRect = Unset
    /\ resizingRect = Unset
    /\ panning = Unset
    /\ pinch = Unset
    /\ cursor = (IF c = Null THEN cur ELSE "default")
    /\ ret = "none"
    /\ last = [op |-> IF c = Null THEN "throw" ELSE "new", id |-> 0, branch |-> "none"]
    /\ nDown = 0
    /\ nEv = 0
    /\ nConn = 0

\* A Chart constructed on a fresh canvas with a 2D context.
Init == NewChart("2d", "")

\* The constructor has completed, so that the host holds the Chart and may
\* call its operations; an operation leaves context and listeners alone.
Constructed == ctx # Null /\ UNCHANGED <<ctx, listeners, currentRectDataMap>>

\* The canvas dispatches events of the type to the chart; a handler leaves
\* context and listeners alone.
Listening(type) ==
    listeners[type] > 0 /\ UNCHANGED <<ctx, listeners, currentRectDataMap>>

gestures == <<draggingRect, resizingRect, panning, pinch>>

scene == <<objs, rectangles, connections>>

counters == <<nDown, nConn>>

TrackedIds == Keys(pointers, "id")

-----------------------------------------------------------------------------
(* Entity and connection operations *)

\* Chart.addRectangle(data), with Math.random() returning rx and then ry
AddRectangle(data, rx, ry) ==
    /\ Constructed
    /\ objs' = Append(objs, NewRectangle(data, transform, rx, ry))
    /\ rectangles' = MapSet(rectangles, "key",
                            [key |-> RectId(objs'[Len(objs')]), ref |-> Len(objs')])
    /\ ret' = "undefined"
    /\ last' = [op |-> "addRectangle", id |-> 0, branch |-> data.id]
    /\ UNCHANGED <<connections, transform, pointers, gestures, cursor, counters>>

\* Chart.removeRectangle(id)
RemoveRectangle(id) ==
    /\ Constructed
    /\ rectangles' = MapDelete(rectangles, "key", id)
    /\ ret' = (id \in Keys(rectangles, "key"))
    /\ last' = [op |-> "removeRectangle", id |-> 0, branch |-> id]
    /\ UNCHANGED <<objs, connections, transform, pointers, gestures, cursor, counters>>

\* A variant of UpdateRectangle that also fits the height of the rectangle
\* to its new entries.
UpdateRectangleFitting(id, data) ==
    /\ Constructed
    /\ IF id \in Keys(rectangles, "key")
       THEN LET ref == rectangles[IndexOf(rectangles, "key", id)].ref
                updated == [objs[ref] EXCEPT !.data = data]
            IN  objs' = [objs EXCEPT ![ref] =
                    [updated EXCEPT !.height =
                        calculateMinimumHeight(updated, transform.scale)]]
            /\ ret' = TRUE
       ELSE /\ objs' = objs
            /\ ret' = FALSE
    /\ last' = [op |-> "updateRectangle", id |-> 0, branch |-> id,
                data |-> data]
    /\ UNCHANGED <<rectangles, connections, transform, pointers, gestures, cursor, counters>>

\* Chart.updateRectangle(id, data)
UpdateRectangle(id, data) ==
    /\ Constructed
    /\ IF id \in Keys(rectangles, "key")
       THEN /\ objs' = [objs EXCEPT ![rectangles[IndexOf(rectangles, "key", id)].ref].data = data]
            /\ ret' = TRUE
       ELSE /\ objs' = objs
            /\ ret' = FALSE
    /\ last' = [op |-> "updateRectangle", id |-> 0, branch |-> id,
                data |-> data]
    /\ UNCHANGED <<rectangles, connections, transform, pointers, gestures, cursor, counters>>

\* The value undefined, which reading a property an object lacks gives.
Undefined == "undefined"

\* The payload updateDiagram hands to addRectangle: the data with its id
\* removed by the destructuring { id: _discardId, ...dataToAdd }.
StripId(data) == [data EXCEPT !.id = Undefined]

\* new Map(newRectDataArray.map(r => [r.id, r]))
RECURSIVE RectMapOf(_)
RectMapOf(list) ==
    IF list = <<>> THEN <<>>
    ELSE MapSet(RectMapOf(SubSeq(list, 1, Len(list) - 1)), "id",
                [id |-> list[Len(list)].id, data |-> list[Len(list)]])

\* updateDiagram, step 1: for each id of ids (the ids the webview held, in
\* order) that is not among newIds, chart.removeRectangle(id) is called and
\* the id is deleted from the webview's map.  st holds the chart's objects
\* and entity map, the webview's map and the calls made with their results.
RECURSIVE SyncRemove(_, _, _)
SyncRemove(st, ids, newIds) ==
    IF ids = <<>> THEN st
    ELSE LET id == Head(ids)
         IN  IF id \in newIds THEN SyncRemove(st, Tail(ids), newIds)
             ELSE SyncRemove(
                    [st EXCEPT
                       !.rectangles = MapDelete(st.rectangles, "key", id),
                       !.current = MapDelete(st.current, "id", id),
                       !.calls = Append(st.calls,
                            [call |-> "removeRectangle", id |-> id,
                             ok |-> id \in Keys(st.rectangles, "key")])],
                    Tail(ids), newIds)

\* updateDiagram, step 2: for each entry of the new map, in order, an id
\* the webview held is updated through chart.updateRectangle when its data
\* changed, and any other is added through chart.addRectangle with the id
\* stripped.  An addRectangle with no return value counts as done.
RECURSIVE SyncAddOrUpdate(_, _, _, _, _, _)
SyncAddOrUpdate(st, entries, existingIds, tr, rx, ry) ==
    IF entries = <<>> THEN st
    ELSE LET id == Head(entries).id
             newData == Head(entries).data
             oldData == st.current[IndexOf(st.current, "id", id)].data
             stored == id \in Keys(st.rectangles, "key")
             added == NewRectangle(StripId(newData), tr, rx, ry)
         IN  IF id \in existingIds
             THEN IF oldData # newData
                  THEN SyncAddOrUpdate(
                         [st EXCEPT
                            !.objs = IF stored
                                     THEN [st.objs EXCEPT
                                             ![st.rectangles[IndexOf(st.rectangles, "key", id)].ref].data = newData]
                                     ELSE st.objs,
                            !.current = MapSet(st.current, "id", Head(entries)),
                            !.calls = Append(st.calls,
                                 [call |-> "updateRectangle", id |-> id, ok |-> stored])],
                         Tail(entries), existingIds, tr, rx, ry)
                  ELSE SyncAddOrUpdate(st, Tail(entries), existingIds, tr, rx, ry)
             ELSE SyncAddOrUpdate(
                    [st EXCEPT
                       !.objs = Append(st.objs, added),
                       !.rectangles = MapSet(st.rectangles, "key",
                            [key |-> RectId(added), ref |-> Len(st.objs) + 1]),
                       !.current = MapSet(st.current, "id", Head(entries)),
                       !.calls = Append(st.calls,
                            [call |-> "addRectangle", id |-> id, ok |-> TRUE])],
                    Tail(entries), existingIds, tr, rx, ry)

\* The webview's updateDiagram(newRectDataArray), with Math.random() giving
\* rx, ry to each addRectangle; it returns early while there is no chart.
UpdateDiagram(list, rx, ry) ==
    /\ ctx # Null
    /\ LET existingIds == Keys(currentRectDataMap, "id")
           newRectMap == RectMapOf(list)
           start == [objs |-> objs, rectangles |-> rectangles,
                     current |-> currentRectDataMap, calls |-> <<>>]
           removed == SyncRemove(start,
                                 [i \in 1..Len(currentRectDataMap) |->
                                      currentRectDataMap[i].id],
                                 Keys(newRectMap, "id"))
           done == SyncAddOrUpdate(removed, newRectMap, existingIds, transform, rx, ry)
       IN  /\ objs' = done.objs
           /\ rectangles' = done.rectangles
           /\ currentRectDataMap' = done.current
           /\ last' = [op |-> "updateDiagram", id |-> 0, branch |-> "none",
                       list |-> list, calls |-> done.calls]
    /\ ret' = "undefined"
    /\ UNCHANGED <<connections, transform, pointers, gestures, cursor, counters,
                   ctx, listeners>>

\* A variant of AddConnection that takes the number of connections plus
\* one as the id, which is in use once an earlier connection was removed.
AddConnectionCounting(sideA, sideB) ==
    /\ Constructed
    /\ nConn' = nConn + 1
    /\ connections' = MapSet(connections, "id",
                             [id |-> Len(connections) + 1,
                              sideA |-> sideA, sideB |-> sideB])
    /\ ret' = Len(connections) + 1
    /\ last' = [op |-> "addConnection", id |-> 0, branch |-> "none",
                sideA |-> sideA, sideB |-> sideB]
    /\ UNCHANGED <<objs, rectangles, transform, pointers, gestures, cursor, nDown>>

\* Chart.addConnection(sideA, sideB); crypto.randomUUID() returns a fresh id
AddConnection(sideA, sideB) ==
    /\ Constructed
    /\ nConn' = nConn + 1
    /\ connections' = MapSet(connections, "id",
                             [id |-> nConn', sideA |-> sideA, sideB |-> sideB])
    /\ ret' = nConn'
    /\ last' = [op |-> "addConnection", id |-> 0, branch |-> "none",
                sideA |-> sideA, sideB |-> sideB]
    /\ UNCHANGED <<objs, rectangles, transform, pointers, gestures, cursor, nDown>>

\* Chart.removeConnection(id)
RemoveConnection(id) ==
    /\ Constructed
    /\ connections' = MapDelete(connections, "id", id)
    /\ ret' = (id \in Keys(connections, "id"))
    /\ last' = [op |-> "removeConnection", id |-> 0, branch |-> "none",
                conn |-> id]
    /\ UNCHANGED <<objs, rectangles, transform, pointers, gestures, cursor, counters>>

-----------------------------------------------------------------------------
(* Event handlers *)

\* The fields of the Chart, and the canvas cursor, that the event handlers
\* read and write.
Chart ==
    [objs |-> objs, rectangles |-> rectangles, transform |-> transform,
     pointers |-> pointers, draggingRect |-> draggingRect,
     resizingRect |-> resizingRect, panning |-> panning, pinch |-> pinch,
     cursor |-> cursor, last |-> last]

\* An event the canvas dispatches: its type, pointerId, (clientX, clientY)
\* and deltaY.
Event(type, id, sp, deltaY) ==
    [type |-> type, pointerId |-> id, at |-> sp, deltaY |-> deltaY]

\* Chart.handlePointerDown on chart c for event e.
handlePointerDown(c, e) ==
    LET sp == e.at
        ptrs == MapSet(c.pointers, "id", [id |-> e.pointerId, pos |-> sp])
        c1 == [c EXCEPT !.pointers = ptrs]
    IN  IF Len(ptrs) = 2
        THEN [c1 EXCEPT
                !.pinch = <<PinchStart(PointerValues(ptrs), c.transform.scale)>>,
                !.last = [op |-> "down", id |-> e.pointerId, branch |-> "pinch"]]
        ELSE LET w == screenToWorld(c.transform, sp.x, sp.y)
                 hit == hitTest(c.objs, c.rectangles, w.x, w.y)
             IN  IF IsSet(hit)
                 THEN IF hit[1].part = "inside"
                      THEN [c1 EXCEPT
                              !.draggingRect =
                                  <<DragStart(hit[1].rect, c.objs[hit[1].rect], sp)>>,
                              !.cursor = "move",
                              !.last = [op |-> "down", id |-> e.pointerId,
                                        branch |-> "drag"]]
                      ELSE [c1 EXCEPT
                              !.resizingRect =
                                  <<ResizeStart(hit[1].rect, c.objs[hit[1].rect],
                                                hit[1].part, sp)>>,
                              !.cursor = CURSOR_MAP(hit[1].part),
                              !.last = [op |-> "down", id |-> e.pointerId,
                                        branch |-> "resize"]]
                 ELSE [c1 EXCEPT
                         !.panning = <<PanStart(sp, c.transform)>>,
                         !.cursor = "grabbing",
                         !.last = [op |-> "down", id |-> e.pointerId,
                                   branch |-> "pan"]]

\* Chart.handlePointerMove on chart c for event e.
handlePointerMove(c, e) ==
    LET sp == e.at
        id == e.pointerId
    IN  IF id \notin Keys(c.pointers, "id")
        THEN [c EXCEPT
                !.cursor = updateCursor(c.objs, c.rectangles, c.transform, c.pinch,
                                        c.panning, c.resizingRect, c.draggingRect,
                                        c.cursor, sp),
                !.last = [op |-> "move", id |-> id, branch |-> "hover", at |-> sp]]
        ELSE LET ptrs == MapSet(c.pointers, "id", [id |-> id, pos |-> sp])
                 c1 == [c EXCEPT !.pointers = ptrs]
             IN  IF IsSet(c.pinch) /\ Len(ptrs) = 2
                 THEN [c1 EXCEPT
                         !.transform = PinchMove(c.pinch[1], PointerValues(ptrs),
                                                 c.transform),
                         !.last = [op |-> "move", id |-> id, branch |-> "pinch"]]
                 ELSE IF IsSet(c.resizingRect)
                 THEN [c1 EXCEPT
                         !.objs[c.resizingRect[1].rect] =
                             ResizeMove(@, c.resizingRect[1].part,
                                        c.resizingRect[1].start,
                                        c.resizingRect[1].init, sp,
                                        c.transform.scale),
                         !.last = [op |-> "move", id |-> id, branch |-> "resize"]]
                 ELSE IF IsSet(c.draggingRect)
                 THEN [c1 EXCEPT
                         !.objs[c.draggingRect[1].rect] =
                             DragMove(@, c.draggingRect[1].start,
                                      c.draggingRect[1].initPos, sp,
                                      c.transform.scale),
                         !.last = [op |-> "move", id |-> id, branch |-> "drag"]]
                 ELSE IF IsSet(c.panning)
                 THEN [c1 EXCEPT
                         !.transform = PanMove(c.panning[1], sp, c.transform),
                         !.last = [op |-> "move", id |-> id, branch |-> "pan"]]
                 ELSE [c1 EXCEPT
                         !.last = [op |-> "move", id |-> id, branch |-> "none"]]

\* Chart.handlePointerUp on chart c for event e, a pointerup or a
\* pointercancel, which initEvents routes to the same handler.  The pointer
\* need not be tracked: Map.delete of an absent id changes nothing, and the
\* rest of the handler runs all the same.
handlePointerUp(c, e) ==
    LET ptrs == MapDelete(c.pointers, "id", e.pointerId)
        pin == PinchAfterUp(ptrs, c.pinch)
        op == IF e.type = "pointerup" THEN "up" ELSE "cancel"
        c1 == [c EXCEPT !.pointers = ptrs, !.pinch = pin,
                        !.last = [op |-> op, id |-> e.pointerId, branch |-> "none"]]
    IN  IF Len(ptrs) = 0
        THEN [c1 EXCEPT
                !.draggingRect = Unset,
                !.resizingRect = Unset,
                !.panning = Unset,
                !.cursor = updateCursor(c.objs, c.rectangles, c.transform, pin,
                                        Unset, Unset, Unset, c.cursor, e.at)]
        ELSE c1

\* A variant of handleWheel that ends the pan in progress.
handleWheelEndingPan(c, e) ==
    [c EXCEPT
        !.transform = WheelZoom(c.transform, e.at, e.deltaY),
        !.panning = Unset,
        !.last = [op |-> "wheel", id |-> 0, branch |-> "none",
                  at |-> e.at, deltaY |-> e.deltaY]]

\* Chart.handleWheel on chart c for event e.
handleWheel(c, e) ==
    [c EXCEPT
        !.transform = WheelZoom(c.transform, e.at, e.deltaY),
        !.last = [op |-> "wheel", id |-> 0, branch |-> "none",
                  at |-> e.at, deltaY |-> e.deltaY]]

\* One listener installed by initEvents running for event e.
Handle(c, e) ==
    CASE e.type = "pointerdown" -> handlePointerDown(c, e)
      [] e.type = "pointermove" -> handlePointerMove(c, e)
      [] e.type \in {"pointerup", "pointercancel"} -> handlePointerUp(c, e)
      [] e.type = "wheel" -> handleWheel(c, e)

\* The canvas dispatching event e to n listeners of its type, one after the
\* other, each on the chart as the one before left it.
RECURSIVE Dispatch(_, _, _)
Dispatch(c, e, n) == IF n = 0 THEN c ELSE Dispatch(Handle(c, e), e, n - 1)

\* Event e is dispatched to every listener the chart has installed for its
\* type, and the chart and the cursor are as the listeners leave them.
Handled(e) ==
    /\ Listening(e.type)
    /\ \E c \in {Dispatch(Chart, e, listeners[e.type])} :
           /\ objs' = c.objs
           /\ transform' = c.transform
           /\ pointers' = c.pointers
           /\ draggingRect' = c.draggingRect
           /\ resizingRect' = c.resizingRect
           /\ panning' = c.panning
           /\ pinch' = c.pinch
           /\ cursor' = c.cursor
           /\ last' = c.last
    /\ UNCHANGED <<rectangles, connections, ret, nConn>>

\* A pointerdown event at screen point sp.  A pointer that goes down is not
\* already down; since the handlers never compare pointer ids, the ids are
\* handed out in order of the downs.
PointerDown(sp) ==
    /\ nDown' = nDown + 1
    /\ Handled(Event("pointerdown", nDown + 1, sp, 0))

\* A pointermove event of pointer id, tracked or not, at screen point sp.
PointerMove(id, sp) ==
    /\ Handled(Event("pointermove", id, sp, 0))
    /\ nDown' = nDown

\* A pointerup (op "up") or pointercancel (op "cancel") event of pointer id,
\* tracked or not, at screen point sp.
HandlePointerUp(op, id, sp) ==
    /\ Handled(Event(IF op = "up" THEN "pointerup" ELSE "pointercancel", id, sp, 0))
    /\ nDown' = nDown

PointerUp(id, sp) == HandlePointerUp("up", id, sp)

PointerCancel(id, sp) == HandlePointerUp("cancel", id, sp)

\* A wheel event at screen point sp with the given deltaY.
Wheel(sp, deltaY) ==
    /\ Handled(Event("wheel", 0, sp, deltaY))
    /\ nDown' = nDown

\* The most listeners per event type the host installs.
MaxListeners == 2

\* Chart.initEvents() called by the host on a constructed chart: it is a
\* public method, and each call installs one more listener per event type.
InitEvents ==
    /\ ctx # Null
    /\ \A type \in EventTypes : listeners[type] < MaxListeners
    /\ listeners' = initEvents(listeners)
    /\ ret' = "undefined"
    /\ last' = [op |-> "initEvents", id |-> 0, branch |-> "none"]
    /\ UNCHANGED <<scene, transform, pointers, gestures, cursor, counters, ctx,
                   currentRectDataMap>>

-----------------------------------------------------------------------------
(* Specification *)

\* One more operation or event is handled.
Step == nEv < MaxEvents /\ nEv' = nEv + 1

\* The last position pointer id reported.  A pointer goes up, or is
\* cancelled, where it last reported to be.
PosOf(id) == pointers[IndexOf(pointers, "id", id)].pos

\* Where pointer id may go up or be cancelled: a tracked pointer where it
\* last reported to be, a pointer that went down outside the canvas at any
\* of the positions pts on it.
UpPts(id, pts) == IF id \in TrackedIds THEN {PosOf(id)} ELSE pts

\* A payload with two entries, whose minimum height at scale 1 (71.2) is
\* below the default height.
TwoEntries == [id |-> "x", title |-> "X", entries |-> <<"e1", "e2">>]

\* A payload with six entries, as many as generateDummyData makes at most,
\* whose minimum height at scale 1 (143.2) is above the default height.
SixEntries ==
    [id |-> "y", title |-> "Y", entries |-> <<"e1", "e2", "e3", "e4", "e5", "e6">>]

\* Screen positions of wheel events: over an entity and over the empty
\* canvas.
WheelPts == {P(200, 120), P(40, 120)}

\* Touch input: any number of pointers down at once, one kind of entity,
\* pointers that are released or cancelled over the canvas without having
\* gone down on it, and a host that calls initEvents again.
Next ==
    /\ Step
    /\ \/ \E rx \in Randoms, ry \in Randoms : AddRectangle(TwoEntries, rx, ry)
       \/ InitEvents
       \/ \E sp \in Pts : PointerDown(sp)
       \/ \E id \in TrackedIds, sp \in Pts : PointerMove(id, sp)
       \/ \E id \in TrackedIds \cup {HoverId} : \E sp \in UpPts(id, Pts) :
            PointerUp(id, sp)
       \/ \E id \in TrackedIds \cup {HoverId} : \E sp \in UpPts(id, Pts) :
            PointerCancel(id, sp)
       \/ \E sp \in WheelPts, deltaY \in WheelDeltas : Wheel(sp, deltaY)

Spec == Init /\ [][Next]_vars

\* Mouse input: one pointer, which hovers while no button is down and may
\* be released over the canvas after a press outside it, and entities with
\* few and with many entries.
NextMouse ==
    /\ Step
    /\ \/ \E data \in {TwoEntries, SixEntries}, rx \in Randoms, ry \in Randoms :
            AddRectangle(data, rx, ry)
       \/ \E sp \in Pts : pointers = <<>> /\ PointerDown(sp)
       \/ \E id \in TrackedIds \cup {HoverId}, sp \in Pts : PointerMove(id, sp)
       \/ \E id \in TrackedIds \cup {HoverId} : \E sp \in UpPts(id, WheelPts) :
            PointerUp(id, sp)
       \/ \E id \in TrackedIds \cup {HoverId} : \E sp \in UpPts(id, WheelPts) :
            PointerCancel(id, sp)
       \/ \E sp \in WheelPts, deltaY \in WheelDeltas : Wheel(sp, deltaY)

SpecMouse == Init /\ [][NextMouse]_vars

\* Screen positions of pointer events while the scene is edited: with the
\* rectangle positions of Randoms they fall on the inside, an edge or a
\* corner of a rectangle, or on the empty canvas.
ScenePts == {P(200, 120), P(40, 120)}

\* Pairs of endpoints connected while the scene is edited: between two
\* entities in either direction, with and without an entry, and within one
\* entity.
EndpointPairs ==
    { <<[rectId |-> "x", entryId |-> "e1"], [rectId |-> "y", entryId |-> "e2"]>>,
      <<[rectId |-> "y", entryId |-> ""], [rectId |-> "x", entryId |-> "e1"]>>,
      <<[rectId |-> "x", entryId |-> "e1"], [rectId |-> "x", entryId |-> "e1"]>>,
      <<[rectId |-> "y", entryId |-> "e2"], [rectId |-> "y", entryId |-> ""]>> }

\* Scene editing by a host, between and during pointer gestures: entities
\* and connections are added, updated and removed, with ids that are
\* present and ids that are not.
NextScene ==
    /\ Step
    /\ \/ \E data \in RectDatas, r \in Randoms : AddRectangle(data, r, r)
       \/ \E id \in RectIds : RemoveRectangle(id)
       \/ \E id \in RectIds, data \in RectDatas : UpdateRectangle(id, data)
       \/ \E pair \in EndpointPairs : AddConnection(pair[1], pair[2])
       \/ \E id \in 1..(nConn + 1) : RemoveConnection(id)
       \/ \E sp \in ScenePts : PointerDown(sp)
       \/ \E id \in TrackedIds, sp \in ScenePts : PointerMove(id, sp)
       \/ \E id \in TrackedIds : PointerUp(id, PosOf(id))

SpecScene == Init /\ [][NextScene]_vars

\* WheelEvent.deltaY values that zoom far in (factor 16) and far out
\* (factor 1/8) in one event.
ZoomDeltas == {-15000, 875}

\* The screen position of wheel events while zooming far.
ZoomWheelPts == {P(0, 60)}

\* Screen positions on the canvas where pointers go down and hover: on the
\* left edge of an entity placed at the world origin, and on its bottom edge
\* when zoomed out.
ZoomDownPts == {P(0, 60), P(12, 67)}

\* Screen positions a captured pointer moves to (handlePointerDown calls
\* setPointerCapture, so a pointer that is down reports positions beyond
\* the canvas too): far to the right, and up to the top.
ZoomMovePts == {P(3200, 60), P(12, 0)}

\* Input while zoomed far in or far out: one pointer down at a time, and a
\* pointer that hovers or is released without having gone down.
NextZoom ==
    /\ Step
    /\ \/ AddRectangle(TwoEntries, I(0), I(0))
       \/ \E sp \in ZoomDownPts : pointers = <<>> /\ PointerDown(sp)
       \/ \E id \in TrackedIds, sp \in ZoomMovePts : PointerMove(id, sp)
       \/ \E sp \in ZoomDownPts : PointerMove(HoverId, sp)
       \/ \E id \in TrackedIds \cup {HoverId} : \E sp \in UpPts(id, ZoomDownPts) :
            PointerUp(id, sp)
       \/ \E sp \in ZoomWheelPts, deltaY \in ZoomDeltas : Wheel(sp, deltaY)

SpecZoom == Init /\ [][NextZoom]_vars

\* Positions of a pointer that hovers over the canvas: with the rectangle
\* positions of Randoms they fall on the inside, an edge or a corner of an
\* entity, or on the empty canvas.
HoverPts == {P(200, 120), P(40, 120), P(200, 240)}

\* Touch input with a second device that hovers (a mouse or a pen): any
\* number of pointers down, moves and releases of a pointer that is not
\* down, and a host that calls initEvents again.
NextHover ==
    /\ Step
    /\ \/ \E r \in Randoms : AddRectangle(TwoEntries, r, r)
       \/ \E sp \in Pts : PointerDown(sp)
       \/ \E id \in TrackedIds, sp \in Pts : PointerMove(id, sp)
       \/ \E sp \in HoverPts : PointerMove(HoverId, sp)
       \/ \E id \in TrackedIds \cup {HoverId} : \E sp \in UpPts(id, HoverPts) :
            PointerUp(id, sp)
       \/ InitEvents

SpecHover == Init /\ [][NextHover]_vars

\* Entities stacked, removed and added again, with one pointer that drags
\* and resizes them and a wheel that zooms: the input under which the
\* order of the entity map decides which entity is hit.
NextStack ==
    /\ Step
    /\ \/ \E data \in RectDatas, r \in Randoms : AddRectangle(data, r, r)
       \/ \E id \in RectIds : RemoveRectangle(id)
       \/ \E sp \in ScenePts : pointers = <<>> /\ PointerDown(sp)
       \/ \E id \in TrackedIds, sp \in Pts : PointerMove(id, sp)
       \/ \E id \in TrackedIds : PointerUp(id, PosOf(id))
       \/ \E sp \in ScenePts : Wheel(sp, 500)

SpecStack == Init /\ [][NextStack]_vars

\* The lists of RectData the extension posts to the webview, one after
\* another: ids appear, change their data, and disappear.
SyncLists ==
    { <<>>,
      <<[id |-> "x", title |-> "X", entries |-> <<"e1", "e2">>]>>,
      <<[id |-> "x", title |-> "X2", entries |-> <<>>]>>,
      <<[id |-> "x", title |-> "X", entries |-> <<"e1", "e2">>],
        [id |-> "y", title |-> "Y", entries |-> <<"e2">>]>>,
      <<[id |-> "y", title |-> "Y", entries |-> <<"e2">>],
        [id |-> "x", title |-> "X2", entries |-> <<>>]>> }

\* The webview as the extension drives it: update messages, between and
\* during pointer gestures on the canvas.
NextSync ==
    /\ Step
    /\ \/ \E list \in SyncLists, r \in Randoms : UpdateDiagram(list, r, r)
       \/ \E sp \in ScenePts : pointers = <<>> /\ PointerDown(sp)
       \/ \E id \in TrackedIds, sp \in ScenePts : PointerMove(id, sp)
       \/ \E id \in TrackedIds : PointerUp(id, PosOf(id))

SpecSync == Init /\ [][NextSync]_vars

\* A canvas may or may not provide a 2D drawing context.
Contexts == {"2d", Null}

InitNew == \E c \in Contexts, cur \in CanvasCursors : NewChart(c, cur)

\* Scene editing and pointer gestures on whatever the constructor left, by
\* a host that may call initEvents again.
NextNew == NextScene \/ (Step /\ InitEvents)

SpecNew == InitNew /\ [][NextNew]_vars

-----------------------------------------------------------------------------
(* Properties *)

\* The number of gesture records that are set.
GestureCount == Cardinality({i \in 1..4 : IsSet(gestures[i])})

\* The rectangle a resize gesture refers to.
ResizedRect == objs[resizingRect[1].rect]

\* C1: in every reachable state at most one of the four gesture records
\* (draggingRect, resizingRect, panning, pinch) is set.
C1_AtMostOneGesture == GestureCount <= 1

\* C2: after every pointer-move handled by the resize branch, the rectangle
\* being resized is at least RECT_STYLE.minWidth / scale wide and at least
\* calculateMinimumHeight(rect, scale) high, at the current scale.
C2_ResizeKeepsMinimumSize ==
    (last.op = "move" /\ last.branch = "resize") =>
        /\ Ge(ResizedRect.width, Div(I(minWidth), transform.scale))
        /\ Ge(ResizedRect.height,
              calculateMinimumHeight(ResizedRect, transform.scale))

\* The same, for the moves handled while the scale is positive: it holds, so
\* C2 fails only once the scale has left the positive numbers (C5).
ResizeKeepsMinimumSizeAtPositiveScale ==
    Gt(transform.scale, I(0)) => C2_ResizeKeepsMinimumSize

\* C3: throughout a resize gesture every edge of the rectangle that the hit
\* part does not name stays at the coordinate it had when the gesture
\* started.
C3_UndraggedEdgesStay ==
    IsSet(resizingRect) =>
        LET g == resizingRect[1]
            r == ResizedRect
        IN  /\ ~PartIncludes(g.part, "left") => r.x = g.init.x
            /\ ~PartIncludes(g.part, "right") =>
                   Add(r.x, r.width) = Add(g.init.x, g.init.w)
            /\ ~PartIncludes(g.part, "top") => r.y = g.init.y
            /\ ~PartIncludes(g.part, "bottom") =>
                   Add(r.y, r.height) = Add(g.init.y, g.init.h)

\* The part of C3 about the floor: on a left or top drag of a rectangle that
\* started the gesture at or above its minimum size, the right and the
\* bottom edge stay where they were while the scale is positive.
OppositeEdgeStaysWhenClamped ==
    (IsSet(resizingRect) /\ Gt(transform.scale, I(0))) =>
        LET g == resizingRect[1]
            r == ResizedRect
        IN  /\ PartIncludes(g.part, "left") =>
                   Add(r.x, r.width) = Add(g.init.x, g.init.w)
            /\ PartIncludes(g.part, "top") =>
                   Add(r.y, r.height) = Add(g.init.y, g.init.h)

\* C4: in every reachable state every entity of the scene is at least
\* minWidth / scale wide and at least as high as its title line and one line
\* per entry need, at the current scale.
C4_EntitiesKeepMinimumSize ==
    \A i \in 1..Len(rectangles) :
        LET r == objs[rectangles[i].ref]
        IN  /\ Ge(r.width, Div(I(minWidth), transform.scale))
            /\ Ge(r.height, calculateMinimumHeight(r, transform.scale))

\* C5: the scale of the view transform is strictly positive in every
\* reachable state.
C5_ScalePositive == Gt(transform.scale, I(0))

\* The hit test at the screen point of the only pointer that is down.
HitUnderPointer ==
    LET w == screenToWorld(transform, pointers[1].pos.x, pointers[1].pos.y)
    IN  hitTest(objs, rectangles, w.x, w.y)

\* C6: a pointer-down that makes exactly one pointer active hit-tests the
\* world point under it and enters Dragging, recording the entity's position
\* and the pointer's screen position, if the hit part is inside; Resizing,
\* recording the part, the entity's x, y, width and height and the pointer's
\* position, if the hit part is an edge or a corner; and Panning, recording a
\* copy of the current transform, if no entity is hit.
C6_SinglePointerDownStartsGesture ==
    (last.op = "down" /\ Len(pointers) = 1) =>
        LET sp == pointers[1].pos
            hit == HitUnderPointer
        IN  IF ~IsSet(hit)
            THEN /\ IsSet(panning)
                 /\ panning[1].initTrans = transform
                 /\ panning[1].start = sp
            ELSE LET r == objs[hit[1].rect]
                 IN  IF hit[1].part = "inside"
                     THEN /\ IsSet(draggingRect)
                          /\ draggingRect[1].rect = hit[1].rect
                          /\ draggingRect[1].initPos = [x |-> r.x, y |-> r.y]
                          /\ draggingRect[1].start = sp
                     ELSE /\ IsSet(resizingRect)
                          /\ resizingRect[1].rect = hit[1].rect
                          /\ resizingRect[1].part = hit[1].part
                          /\ resizingRect[1].init =
                                 [x |-> r.x, y |-> r.y, w |-> r.width, h |-> r.height]
                          /\ resizingRect[1].start = sp

\* A pointer has just gone down on the top-right corner of an entity and
\* started resizing it.
C6_Witness ==
    /\ last.op = "down"
    /\ Len(pointers) = 1
    /\ IsSet(HitUnderPointer)
    /\ HitUnderPointer[1].part = "top-right"
    /\ IsSet(resizingRect)

\* C7: a pointer-down that makes exactly two pointers active enters Pinching,
\* recording the distance between the two pointers, the current scale and the
\* screen-space midpoint of the two pointers, and starts no drag, resize or
\* pan (the hit test changes no state, so that none is performed shows as
\* these three records being left as they were).
C7_SecondPointerDownStartsPinch ==
    [][(nDown' = nDown + 1 /\ Len(pointers') = 2) =>
          LET a == pointers'[1].pos
              b == pointers'[2].pos
          IN  /\ IsSet(pinch')
              /\ pinch'[1].startDist = Hypot(Sub(b.x, a.x), Sub(b.y, a.y))
              /\ pinch'[1].startScale = transform.scale
              /\ pinch'[1].mid = [x |-> Div(Add(a.x, b.x), I(2)),
                                  y |-> Div(Add(a.y, b.y), I(2))]
              /\ UNCHANGED <<draggingRect, resizingRect, panning>>]_vars

\* A second pointer has just gone down 200 pixels from the first, at a scale
\* other than 1.
C7_Witness ==
    /\ last.op = "down"
    /\ last.branch = "pinch"
    /\ Len(pointers) = 2
    /\ IsSet(pinch)
    /\ pinch[1].startDist = I(200)
    /\ pinch[1].startScale = I(2)

\* C8: after a pointer-up for a pointer id that id is no longer tracked;
\* Pinching is cleared if fewer than two pointers remain tracked; Dragging,
\* Resizing and Panning are cleared if none remains; so in every reachable
\* state with no tracked pointer all four gesture records are unset.
C8_PointerUpClearsGestures ==
    /\ last.op \in {"up", "cancel"} =>
           /\ last.id \notin TrackedIds
           /\ Len(pointers) < 2 => ~IsSet(pinch)
           /\ Len(pointers) = 0 =>
                  ~IsSet(draggingRect) /\ ~IsSet(resizingRect) /\ ~IsSet(panning)
    /\ pointers = <<>> => GestureCount = 0

\* The second of two pointers that were pinching has just gone up, after the
\* first: no pointer is tracked.
C8_Witness ==
    /\ last.op = "up"
    /\ last.id = 2
    /\ nDown = 2
    /\ pointers = <<>>

\* C9: a pointercancel clears all gesture state of the cancelled pointer:
\* after a cancel of the pointer that started a drag, resize or pan, that
\* record is unset whether or not other pointers are still down.  (Stated
\* for the first pointer of a run with at most two downs: it is down from
\* its own down to its cancel, so the second down, if any, made two pointers
\* active and started no drag, resize or pan; every such record was started
\* by the first pointer.)
C9_CancelClearsGesture ==
    (last.op = "cancel" /\ last.id = 1 /\ nDown <= 2) =>
        ~IsSet(draggingRect) /\ ~IsSet(resizingRect) /\ ~IsSet(panning)

\* The distance between the pointers with ids 1 and 2.
FirstPairDist ==
    Hypot(Sub(PosOf(2).x, PosOf(1).x), Sub(PosOf(2).y, PosOf(1).y))

\* C10: during a pinch started by two pointers, after every pointer-move of
\* either pointer the scale equals startScale x (current distance between
\* the two pointers / startDist).  (Stated for the pointers with ids 1 and 2:
\* while both are down and a pinch record is set, it is the record their
\* downs started, since any later down makes three or more pointers active.
\* Pinches whose pointers started at the same point are left out: their
\* quotient is not a number.)
C10_PinchScaleFollowsDistance ==
    (/\ last.op = "move"
     /\ last.id \in {1, 2}
     /\ {1, 2} \subseteq TrackedIds
     /\ IsSet(pinch)
     /\ Gt(pinch[1].startDist, I(0))) =>
        transform.scale =
            Mul(pinch[1].startScale, Div(FirstPairDist, pinch[1].startDist))

\* The same while the two pointers are the only ones down: it holds, so C10
\* fails only once a third pointer is down (C35, C38).
PinchScaleFollowsDistanceOfTwo ==
    Len(pointers) = 2 => C10_PinchScaleFollowsDistance

\* The world point under the screen point sp, for the transform tr.
WorldAt(tr, sp) == screenToWorld(tr, sp.x, sp.y)

\* A strictly positive, finite number.
IsPositive(a) == IsFinite(a) /\ Gt(a, I(0))

\* C11: pivot invariance of pinch: the screen-space midpoint recorded at
\* pinch start maps through screenToWorld to the same world point before
\* and after every pinch move (a pointer-move of a tracked pointer while a
\* pinch record is set and two pointers are down), hence before the pinch,
\* after each of its moves and after it ends, for any sequence of pinch
\* moves.
C11_PinchPivotInvariant ==
    [][(/\ last'.op = "move"
        /\ last'.id \in TrackedIds
        /\ IsSet(pinch)
        /\ Len(pointers') = 2) =>
          WorldAt(transform', pinch[1].mid) = WorldAt(transform, pinch[1].mid)]_vars

\* The same for pinch moves that start and end at a strictly positive scale:
\* it holds, so C11 fails only once the scale is not kept positive (C5).
PinchPivotInvariantAtPositiveScale ==
    [][(/\ last'.op = "move"
        /\ last'.id \in TrackedIds
        /\ IsSet(pinch)
        /\ Len(pointers') = 2
        /\ IsPositive(transform.scale)
        /\ IsPositive(transform'.scale)) =>
          WorldAt(transform', pinch[1].mid) = WorldAt(transform, pinch[1].mid)]_vars

\* C12: for every wheel event at screen point (px, py), screenToWorld(px, py)
\* after the event equals screenToWorld(px, py) before it, while the scale
\* is multiplied by a factor derived from the wheel delta (1 - deltaY/1000).
C12_WheelKeepsPointUnderCursor ==
    [][last'.op = "wheel" =>
          /\ transform'.scale =
                 Mul(transform.scale, Sub(I(1), Frac(last'.deltaY, 1000)))
          /\ WorldAt(transform', last'.at) = WorldAt(transform, last'.at)]_vars

\* The number a multiplied n times with itself.
RECURSIVE Power(_, _)
Power(a, n) == IF n = 0 THEN I(1) ELSE Mul(a, Power(a, n - 1))

\* The same for wheel events that start and end at a strictly positive
\* scale, with the factor applied once by each wheel listener installed: it
\* holds, so C12 fails only once the scale is not kept positive (C5).
WheelKeepsPointUnderCursorAtPositiveScale ==
    [][(/\ last'.op = "wheel"
        /\ IsPositive(transform.scale)
        /\ IsPositive(transform'.scale)) =>
          /\ transform'.scale =
                 Mul(transform.scale,
                     Power(Sub(I(1), Frac(last'.deltaY, 1000)), listeners["wheel"]))
          /\ WorldAt(transform', last'.at) = WorldAt(transform, last'.at)]_vars

\* C13: while Dragging, after each pointer-move (of a tracked pointer, to
\* screen point sp) the dragged entity's position equals its position
\* recorded at gesture start plus (sp - recorded start screen position) /
\* scale, and its width and height, every other entity and the transform
\* are unchanged.
C13_DragFollowsPointer ==
    [][(/\ last'.op = "move"
        /\ last'.id \in TrackedIds
        /\ IsSet(draggingRect)) =>
          LET d == draggingRect[1]
              sp == pointers'[IndexOf(pointers', "id", last'.id)].pos
          IN  /\ objs' = [objs EXCEPT
                    ![d.rect].x = Add(d.initPos.x,
                                      Div(Sub(sp.x, d.start.x), transform.scale)),
                    ![d.rect].y = Add(d.initPos.y,
                                      Div(Sub(sp.y, d.start.y), transform.scale))]
              /\ transform' = transform]_vars

\* The same while the drag record is the only gesture record set: it holds,
\* so C13 fails only once a second record is set beside it (C1).
DragFollowsPointerWhenOnlyGesture ==
    [][(/\ last'.op = "move"
        /\ last'.id \in TrackedIds
        /\ IsSet(draggingRect)
        /\ GestureCount = 1) =>
          LET d == draggingRect[1]
              sp == pointers'[IndexOf(pointers', "id", last'.id)].pos
          IN  /\ objs' = [objs EXCEPT
                    ![d.rect].x = Add(d.initPos.x,
                                      Div(Sub(sp.x, d.start.x), transform.scale)),
                    ![d.rect].y = Add(d.initPos.y,
                                      Div(Sub(sp.y, d.start.y), transform.scale))]
              /\ transform' = transform]_vars

\* C14: while Panning, after each pointer-move (of a tracked pointer, to
\* screen point sp) translateX and translateY equal the translate recorded at
\* gesture start plus the raw screen-space pointer delta sp - start (not
\* divided by the scale), and the scale and every entity are unchanged.
C14_PanFollowsPointer ==
    [][(/\ last'.op = "move"
        /\ last'.id \in TrackedIds
        /\ IsSet(panning)) =>
          LET pan == panning[1]
              sp == pointers'[IndexOf(pointers', "id", last'.id)].pos
          IN  /\ transform' =
                    [scale |-> transform.scale,
                     translateX |-> Add(pan.initTrans.translateX,
                                        Sub(sp.x, pan.start.x)),
                     translateY |-> Add(pan.initTrans.translateY,
                                        Sub(sp.y, pan.start.y))]
              /\ objs' = objs]_vars

\* The same while the pan record is the only gesture record set: it holds,
\* so C14 fails only once a second record is set beside it (C1).
PanFollowsPointerWhenOnlyGesture ==
    [][(/\ last'.op = "move"
        /\ last'.id \in TrackedIds
        /\ IsSet(panning)
        /\ GestureCount = 1) =>
          LET pan == panning[1]
              sp == pointers'[IndexOf(pointers', "id", last'.id)].pos
          IN  /\ transform' =
                    [scale |-> transform.scale,
                     translateX |-> Add(pan.initTrans.translateX,
                                        Sub(sp.x, pan.start.x)),
                     translateY |-> Add(pan.initTrans.translateY,
                                        Sub(sp.y, pan.start.y))]
              /\ objs' = objs]_vars

\* C15: addEntity(data) returns the entity's id: the returned value equals
\* data.id, under which the new entity is then found in the entity map.
C15_AddReturnsId ==
    last.op = "addRectangle" =>
        /\ ret = last.branch
        /\ last.branch \in Keys(rectangles, "key")
        /\ RectId(objs[rectangles[IndexOf(rectangles, "key", last.branch)].ref])
               = last.branch

\* The entity is found in the map under data.id: this part holds, so C15
\* fails only in the value returned.
AddStoresUnderId ==
    last.op = "addRectangle" =>
        /\ last.branch \in Keys(rectangles, "key")
        /\ rectangles[IndexOf(rectangles, "key", last.branch)].ref = Len(objs)
        /\ RectId(objs[Len(objs)]) = last.branch

\* The world point p lies in the visible world rectangle, between
\* screenToWorld(0, 0) and screenToWorld(canvas.width, canvas.height).
InView(tr, p) ==
    LET lo == screenToWorld(tr, I(0), I(0))
        hi == screenToWorld(tr, I(Canvas.width), I(Canvas.height))
    IN  /\ Le(lo.x, p.x) /\ Le(p.x, hi.x)
        /\ Le(lo.y, p.y) /\ Le(p.y, hi.y)

\* C16: after addEntity, for any current transform, the new rectangle's
\* position lies within the currently visible world rectangle.
C16_AddPlacesInView ==
    last.op = "addRectangle" =>
        InView(transform, [x |-> objs[Len(objs)].x, y |-> objs[Len(objs)].y])

\* The same while the view is neither panned nor zoomed: it holds.
AddPlacesInViewOfInitialTransform ==
    (/\ last.op = "addRectangle"
     /\ transform = [scale |-> I(1), translateX |-> I(0), translateY |-> I(0)]) =>
        InView(transform, [x |-> objs[Len(objs)].x, y |-> objs[Len(objs)].y])

\* The step is a call of removeRectangle, updateRectangle or
\* removeConnection with an id that is not present.
AbsentIdCall ==
    \/ /\ last'.op \in {"removeRectangle", "updateRectangle"}
       /\ last'.branch \notin Keys(rectangles, "key")
    \/ /\ last'.op = "removeConnection"
       /\ last'.conn \notin Keys(connections, "id")

\* C17: removeEntity, updateEntity and removeConnection called with an id
\* that is not present return false and leave the entity map, the connection
\* map, every entity's geometry and data, the transform and the gesture
\* state unchanged.
C17_AbsentIdReturnsFalse ==
    [][AbsentIdCall =>
          /\ ret' = FALSE
          /\ UNCHANGED <<rectangles, connections, objs, transform, gestures>>]_vars

\* removeRectangle has just returned false for an id that is not present,
\* in a scene that holds an entity and a connection, during a gesture.
C17_Witness ==
    /\ last.op = "removeRectangle"
    /\ last.branch \notin Keys(rectangles, "key")
    /\ ret = FALSE
    /\ rectangles # <<>>
    /\ connections # <<>>
    /\ GestureCount = 1

\* C18: removeRectangle(id) on a present id removes the rectangle and every
\* connection attached to it or to one of its entries: afterwards no
\* connection in the chart has sideA.rectId or sideB.rectId equal to id.
C18_RemoveCascadesToConnections ==
    (last.op = "removeRectangle" /\ ret = TRUE) =>
        /\ last.branch \notin Keys(rectangles, "key")
        /\ \A i \in 1..Len(connections) :
               /\ connections[i].sideA.rectId # last.branch
               /\ connections[i].sideB.rectId # last.branch

\* The rectangle itself is removed: this part holds, so C18 fails only in
\* the connections that are left.
RemoveDeletesRectangle ==
    (last.op = "removeRectangle" /\ ret = TRUE) =>
        last.branch \notin Keys(rectangles, "key")

\* The endpoint's rectId is a key of the entity map.
RectResolves(ep) == ep.rectId \in Keys(rectangles, "key")

\* The entity an endpoint's rectId resolves to.
RectOf(ep) == objs[rectangles[IndexOf(rectangles, "key", ep.rectId)].ref]

\* The endpoint names an entry and the entity has an entry with that id.
EntryResolves(ep) ==
    /\ ep.entryId # ""
    /\ \E j \in 1..Len(RectOf(ep).data.entries) :
           RectOf(ep).data.entries[j] = ep.entryId

\* The point at which a dangling endpoint is to be drawn: the world origin
\* when its rectangle does not resolve, the centre of its rectangle when
\* only its entry does not.
FallbackPoint(ep) ==
    IF ~RectResolves(ep) THEN [x |-> I(0), y |-> I(0)]
    ELSE [x |-> Add(RectOf(ep).x, Div(RectOf(ep).width, I(2))),
          y |-> Add(RectOf(ep).y, Div(RectOf(ep).height, I(2)))]

\* The endpoint's rectangle or entry does not resolve.
Dangling(ep) == ~RectResolves(ep) \/ ~EntryResolves(ep)

\* C19: a connection may be created with endpoints whose rectangle or entry
\* does not exist, and in any state dangling endpoints never make
\* getConnections or draw fail: every connection is returned and drawn, an
\* endpoint whose rectId does not resolve is drawn at the world origin
\* (0, 0), and an endpoint whose rectangle exists but whose entryId does not
\* resolve is drawn at the centre of that rectangle.
C19_DanglingEndpointsDrawn ==
    LET curves == drawConnections(objs, rectangles, connections, transform)
    IN  /\ Len(getConnections(connections)) = Len(connections)
        /\ Len(curves) = Len(connections)
        /\ \A i \in 1..Len(connections) :
               /\ Dangling(connections[i].sideA) =>
                      curves[i].fromPos = FallbackPoint(connections[i].sideA)
               /\ Dangling(connections[i].sideB) =>
                      curves[i].toPos = FallbackPoint(connections[i].sideB)

\* A connection has just been created from a rectangle that does not exist
\* to an entry that does not exist of a rectangle that does, and is drawn
\* from the origin to the centre of that rectangle, which is not the origin.
C19_Witness ==
    /\ last.op = "addConnection"
    /\ LET c == connections[Len(connections)]
           curve == drawConnections(objs, rectangles, connections, transform)[Len(connections)]
       IN  /\ ~RectResolves(c.sideA)
           /\ RectResolves(c.sideB)
           /\ c.sideB.entryId # ""
           /\ ~EntryResolves(c.sideB)
           /\ curve.fromPos = [x |-> I(0), y |-> I(0)]
           /\ curve.toPos # curve.fromPos
           /\ curve.toPos = FallbackPoint(c.sideB)

\* C20: updateEntity(id, data) on a present id returns true, replaces the
\* entity's whole data payload (title and entries) with data, and leaves
\* that entity's x, y, width and height, all other entities, the entity
\* map, the connections, the transform and any in-progress drag, resize,
\* pan or pinch record unchanged.
C20_UpdateReplacesDataOnly ==
    [][(/\ last'.op = "updateRectangle"
        /\ last'.branch \in Keys(rectangles, "key")) =>
          LET ref == rectangles[IndexOf(rectangles, "key", last'.branch)].ref
          IN  /\ ret' = TRUE
              /\ objs'[ref].data = last'.data
              /\ objs'[ref].x = objs[ref].x
              /\ objs'[ref].y = objs[ref].y
              /\ objs'[ref].width = objs[ref].width
              /\ objs'[ref].height = objs[ref].height
              /\ Len(objs') = Len(objs)
              /\ \A o \in 1..Len(objs) : o # ref => objs'[o] = objs[o]
              /\ UNCHANGED <<rectangles, connections, transform, gestures>>]_vars

\* updateRectangle has just replaced the title and the entries of an entity
\* that is being resized, in a scene with a connection.
C20_Witness ==
    /\ last.op = "updateRectangle"
    /\ ret = TRUE
    /\ IsSet(resizingRect)
    /\ RectId(ResizedRect) = last.branch
    /\ ResizedRect.data = last.data
    /\ last.data.title = "X2"
    /\ ResizedRect.height = I(defaultHeight)
    /\ connections # <<>>

\* The entity stored in the map rects under key id, in the heap os.
EntityAt(os, rects, id) == os[rects[IndexOf(rects, "key", id)].ref]

\* C21: calling addEntity a second time with data whose id is already in the
\* scene leaves the scene exactly as it was after the first call: same
\* entity count, same position and size for that entity, including geometry
\* changed since by drag or resize.
C21_RedundantAddKeepsScene ==
    [][(/\ last'.op = "addRectangle"
        /\ last'.branch \in Keys(rectangles, "key")) =>
          /\ Len(rectangles') = Len(rectangles)
          /\ Keys(rectangles', "key") = Keys(rectangles, "key")
          /\ EntityAt(objs', rectangles', last'.branch).x
                 = EntityAt(objs, rectangles, last'.branch).x
          /\ EntityAt(objs', rectangles', last'.branch).y
                 = EntityAt(objs, rectangles, last'.branch).y
          /\ EntityAt(objs', rectangles', last'.branch).width
                 = EntityAt(objs, rectangles, last'.branch).width
          /\ EntityAt(objs', rectangles', last'.branch).height
                 = EntityAt(objs, rectangles, last'.branch).height]_vars

\* The entity count and the set of ids are kept: this part holds, so C21
\* fails only in the geometry of the entity added again.
RedundantAddKeepsIds ==
    [][(/\ last'.op = "addRectangle"
        /\ last'.branch \in Keys(rectangles, "key")) =>
          /\ Len(rectangles') = Len(rectangles)
          /\ Keys(rectangles', "key") = Keys(rectangles, "key")]_vars

\* Ids a caller may query: those of RectIds and one no endpoint names.
QueryIds == RectIds \cup {"z"}

\* C22: getConnectionsFor(rectId) returns exactly the connections for which
\* sideA.rectId or sideB.rectId equals rectId, whatever their entryId, and
\* no others: each such connection once, in the order of the map.
C22_ConnectionsForRect ==
    \A rectId \in QueryIds :
        LET res == getConnectionsForRect(connections, rectId)
            matching == {i \in 1..Len(connections) :
                            \/ connections[i].sideA.rectId = rectId
                            \/ connections[i].sideB.rectId = rectId}
        IN  /\ Len(res) = Cardinality(matching)
            /\ {res[k] : k \in 1..Len(res)} = {connections[i] : i \in matching}
            /\ \A k, l \in 1..Len(res) :
                   k < l => IndexOf(connections, "id", res[k].id)
                               < IndexOf(connections, "id", res[l].id)

\* The single connection {x, e1} - {y, e2} has been added: it is what is
\* returned for "x" and for "y", and nothing is returned for "z".
C22_Witness ==
    /\ Len(connections) = 1
    /\ connections[1].sideA = [rectId |-> "x", entryId |-> "e1"]
    /\ connections[1].sideB = [rectId |-> "y", entryId |-> "e2"]
    /\ getConnectionsForRect(connections, "x") = <<connections[1]>>
    /\ getConnectionsForRect(connections, "y") = <<connections[1]>>
    /\ getConnectionsForRect(connections, "z") = <<>>

\* C23: addConnection(sideA, sideB) adds exactly one connection holding the
\* given endpoints under an id that was not in use before, returns that id,
\* and changes no existing connection or entity; removeConnection(returned
\* id) then returns true and restores the previous connection set.
C23_AddThenRemoveConnection ==
    [][/\ last'.op = "addConnection" =>
             /\ ret' \notin Keys(connections, "id")
             /\ connections' = Append(connections,
                                      [id |-> ret', sideA |-> last'.sideA,
                                       sideB |-> last'.sideB])
             /\ UNCHANGED <<objs, rectangles>>
       /\ (/\ last.op = "addConnection"
           /\ last'.op = "removeConnection"
           /\ last'.conn = ret) =>
             /\ ret' = TRUE
             /\ connections' = SubSeq(connections, 1, Len(connections) - 1)
             /\ UNCHANGED <<objs, rectangles>>]_vars

\* The connection added last, beside an older one, has just been removed
\* under the id addConnection returned for it.
C23_Witness ==
    /\ last.op = "removeConnection"
    /\ last.conn = nConn
    /\ ret = TRUE
    /\ Len(connections) = 1
    /\ connections[1].id = 1
    /\ nConn = 2

\* C24: screenToWorld and the render transform are mutual inverses: under
\* any transform with scale > 0, a screen point converted to world and
\* painted comes back to itself, and so does a world point painted and
\* converted back.
RoundTrips(tr, p) ==
    /\ LET w == screenToWorld(tr, p.x, p.y) IN renderTransform(tr, w.x, w.y) = p
    /\ LET q == renderTransform(tr, p.x, p.y) IN screenToWorld(tr, q.x, q.y) = p

C24_TransformsInverse ==
    IsPositive(transform.scale) => \A p \in Pts : RoundTrips(transform, p)

\* Lemma for C24: the round trip holds whenever the translation is finite too.
C24_InverseWhenFinite ==
    (/\ IsPositive(transform.scale)
     /\ IsFinite(transform.translateX)
     /\ IsFinite(transform.translateY)) =>
        \A p \in Pts : RoundTrips(transform, p)

\* The rectangles of the scene.
SceneRects == { objs[rectangles[i].ref] : i \in 1..Len(rectangles) }

\* The midpoints of the four edges of rectangle r, by edge.
EdgeMidpoint(r, edge) ==
    LET midX == Add(r.x, Div(r.width, I(2)))
        midY == Add(r.y, Div(r.height, I(2)))
    IN  CASE edge = "left" -> [x |-> r.x, y |-> midY]
          [] edge = "right" -> [x |-> Add(r.x, r.width), y |-> midY]
          [] edge = "top" -> [x |-> midX, y |-> r.y]
          [] edge = "bottom" -> [x |-> midX, y |-> Add(r.y, r.height)]

Edges == {"left", "right", "top", "bottom"}

EdgeMidpointsAreEdges(r) ==
    \A edge \in Edges :
        getHitPart(r, EdgeMidpoint(r, edge).x, EdgeMidpoint(r, edge).y) = edge

\* C25: for every rectangle of the scene, whatever its size, the midpoint
\* of each edge classifies as that edge, never as inside or as a corner.
C25_EdgeMidpointIsEdge == \A r \in SceneRects : EdgeMidpointsAreEdges(r)

\* Lemma for C25: the midpoints classify as their edges on rectangles at
\* least two thresholds wide and high.
C25_EdgeMidpointOfWideRect ==
    \A r \in SceneRects :
        (/\ IsFinite(r.x) /\ IsFinite(r.y)
         /\ IsFinite(r.width) /\ IsFinite(r.height)
         /\ Ge(r.width, I(2 * edgeThreshold))
         /\ Ge(r.height, I(2 * edgeThreshold))) => EdgeMidpointsAreEdges(r)

\* The four corners of rectangle r, by corner.
CornerPoint(r, corner) ==
    CASE corner = "top-left" -> [x |-> r.x, y |-> r.y]
      [] corner = "top-right" -> [x |-> Add(r.x, r.width), y |-> r.y]
      [] corner = "bottom-left" -> [x |-> r.x, y |-> Add(r.y, r.height)]
      [] corner = "bottom-right" ->
            [x |-> Add(r.x, r.width), y |-> Add(r.y, r.height)]

Corners == {"top-left", "top-right", "bottom-left", "bottom-right"}

CornersAreCorners(r) ==
    \A corner \in Corners :
        getHitPart(r, CornerPoint(r, corner).x, CornerPoint(r, corner).y) = corner

\* C26: for every rectangle of the scene, each corner point classifies as
\* that corner, never as a single edge and never as another corner.
C26_CornerIsCorner == \A r \in SceneRects : CornersAreCorners(r)

\* Lemma for C26: the corners classify as themselves on rectangles at least
\* one threshold wide and high.
C26_CornerOfWideRect ==
    \A r \in SceneRects :
        (/\ IsFinite(r.x) /\ IsFinite(r.y)
         /\ IsFinite(r.width) /\ IsFinite(r.height)
         /\ Ge(r.width, I(edgeThreshold))
         /\ Ge(r.height, I(edgeThreshold))) => CornersAreCorners(r)

\* Offsets of probe points from an edge of a rectangle: on the edge, inside
\* and at the end of the edge band, and as far on the other side.
ProbeOffsets == {I(-edgeThreshold), I(-3), I(0), I(3), I(edgeThreshold)}

\* Probe coordinates along one axis of a rectangle that starts at lo and is
\* len long: around both edges and at the middle.
ProbesAlong(lo, len) ==
    { Add(lo, o) : o \in ProbeOffsets }
        \cup { Add(Add(lo, len), o) : o \in ProbeOffsets }
        \cup { Add(lo, Div(len, I(2))) }

\* Point (px, py) is strictly within rectangle r and at least the threshold
\* away from each of its edges.
StrictlyInsideNoBand(r, px, py) ==
    LET t == I(edgeThreshold)
    IN  /\ Lt(r.x, px) /\ Lt(px, Add(r.x, r.width))
        /\ Lt(r.y, py) /\ Lt(py, Add(r.y, r.height))
        /\ Ge(Sub(px, r.x), t) /\ Ge(Sub(Add(r.x, r.width), px), t)
        /\ Ge(Sub(py, r.y), t) /\ Ge(Sub(Add(r.y, r.height), py), t)

\* C27: getHitPart returns "inside" only for points strictly within the
\* rectangle that are in no edge or corner band; no point on or outside the
\* boundary of a rectangle of the scene is classified inside.
C27_InsideOnlyStrictlyWithin ==
    \A r \in SceneRects :
        \A px \in ProbesAlong(r.x, r.width), py \in ProbesAlong(r.y, r.height) :
            getHitPart(r, px, py) = "inside" => StrictlyInsideNoBand(r, px, py)

\* A rectangle resized to 400 x 569.6 at scale 1/8 has a probe point
\* classified inside, one threshold within its corner, while the points on
\* its boundary and three units within are not.
C27_Witness ==
    /\ last.op = "move"
    /\ last.branch = "resize"
    /\ \E r \in SceneRects :
         /\ r.width = I(400)
         /\ getHitPart(r, Add(r.x, I(6)), Add(r.y, I(6))) = "inside"
         /\ getHitPart(r, Add(r.x, I(3)), Add(r.y, I(6))) = "left"
         /\ getHitPart(r, r.x, r.y) = "top-left"
         /\ getHitPart(r, Add(r.x, I(-6)), r.y) = Null

\* C28: when the canvas provides no 2D context the constructor throws
\* before any listener is installed, and no operation or event is ever
\* handled by the chart: the scene stays as the field initialisers left it.
C28_NoContextNoChart ==
    ctx = Null =>
        /\ listeners = NoListeners
        /\ cursor \in CanvasCursors
        /\ last.op = "throw"
        /\ nEv = 0
        /\ scene = <<<<>>, <<>>, <<>>>>
        /\ pointers = <<>>
        /\ GestureCount = 0

C28_Witness ==
    ctx = Null /\ last.op = "throw" /\ listeners = NoListeners /\ cursor = "crosshair"

\* The cursor hint of the hit part under screen point sp: that of the
\* last-added entity with a hit part there, or "default".
HintAt(sp) ==
    LET hit == hitTest(objs, rectangles, WorldAt(transform, sp).x,
                       WorldAt(transform, sp).y)
    IN  IF IsSet(hit) THEN CURSOR_MAP(hit[1].part) ELSE "default"

\* C29: a move of an untracked pointer sets the cursor to the hint of the
\* hit part under it while no gesture is active, and leaves the cursor as
\* it is while a drag, resize, pan or pinch is active.
C29_HoverCursorOnlyWhileIdle ==
    [][(last'.op = "move" /\ last'.branch = "hover") =>
            IF GestureCount = 0
            THEN cursor' = HintAt(last'.at)
            ELSE cursor' = cursor]_vars

\* A pointer hovers over the inside of an entity during a pinch that began
\* as a pan: the cursor stays "grabbing".
C29_Witness ==
    /\ last.op = "move"
    /\ last.branch = "hover"
    /\ IsSet(pinch)
    /\ cursor = "grabbing"
    /\ HintAt(last.at) = "move"

\* The pointer move just handled dragged the bottom edge of the rectangle
\* being resized to above the minimum height: init.h + dy < minHeight.
BottomDraggedBelowMinimum ==
    /\ last'.op = "move"
    /\ last'.branch = "resize"
    /\ resizingRect[1].part = "bottom"
    /\ LET g == resizingRect[1]
           sp == pointers'[IndexOf(pointers', "id", last'.id)].pos
           dy == Div(Sub(sp.y, g.start.y), transform.scale)
       IN  Lt(Add(g.init.h, dy), calculateMinimumHeight(objs[g.rect], transform.scale))

\* The rectangle being resized has the minimum height after the step, and
\* its x, y and width are as before the step.
HeightClampedOnly ==
    LET before == objs[resizingRect[1].rect]
        after == objs'[resizingRect[1].rect]
    IN  /\ after.height = calculateMinimumHeight(before, transform.scale)
        /\ after.x = before.x
        /\ after.y = before.y
        /\ after.width = before.width

\* C30: when the bottom edge is dragged upward beyond the room above the
\* content, the height becomes exactly the minimum height and x, y and
\* width are unchanged; the minimum height of an entity with two entries at
\* scale 1 is 16 * 1.2 + 2 * 18 + 2 * 8 = 71.2.
C30_BottomResizeClampsHeight ==
    [][BottomDraggedBelowMinimum =>
            /\ HeightClampedOnly
            /\ (/\ transform.scale = I(1)
                /\ Len(objs[resizingRect[1].rect].data.entries) = 2) =>
                    objs'[resizingRect[1].rect].height = Frac(356, 5)]_vars

\* Lemma for C30: the same, for a rectangle that is at least as wide as the
\* minimum width of the current scale when the move is handled.
C30_BottomResizeOfWideRect ==
    [][(/\ BottomDraggedBelowMinimum
        /\ Ge(objs[resizingRect[1].rect].width, Div(I(minWidth), transform.scale))) =>
            /\ HeightClampedOnly
            /\ (/\ transform.scale = I(1)
                /\ Len(objs[resizingRect[1].rect].data.entries) = 2) =>
                    objs'[resizingRect[1].rect].height = Frac(356, 5)]_vars

\* The drawing operations of a draw() call in the current state.
Drawn == draw(objs, rectangles, connections, transform)

\* C31: each draw() clears the whole canvas first, then strokes one curve
\* per connection, and only then paints one box per entity, in the
\* insertion order of the entity map: every curve precedes every box.
C31_ConnectionsDrawnBeforeEntities ==
    LET ops == Drawn
    IN  /\ ops[1].op = "setTransform" /\ ops[1].scale = I(1)
        /\ ops[2].op = "clearRect"
        /\ ops[2].width = Canvas.width /\ ops[2].height = Canvas.height
        /\ ops[3].op = "setTransform" /\ ops[3].scale = transform.scale
        /\ Len(ops) = 3 + Len(connections) + Len(rectangles)
        /\ \A i, j \in 4..Len(ops) :
                (ops[i].op = "curve" /\ ops[j].op = "box") => i < j
        /\ \A k \in 1..Len(rectangles) :
                /\ ops[3 + Len(connections) + k].op = "box"
                /\ ops[3 + Len(connections) + k].id = rectangles[k].key
        /\ \A k \in 1..Len(connections) :
                /\ ops[3 + k].op = "curve"
                /\ ops[3 + k].id = connections[k].id

\* Two entities and a connection are in the scene, so that the order of
\* curves and boxes shows.
C31_Witness ==
    /\ Len(rectangles) = 2
    /\ Len(connections) >= 1
    /\ Drawn[4].op = "curve"
    /\ Drawn[Len(Drawn)].op = "box"
    /\ Drawn[Len(Drawn)].id = rectangles[2].key

\* The two pairings of the anchors of connection conn: sideA as from with
\* sideB as to, and sideA as to with sideB as from.
Pairings(conn) ==
    << [fromPos |-> getEndpointPosition(objs, rectangles, transform, conn.sideA, TRUE),
        toPos |-> getEndpointPosition(objs, rectangles, transform, conn.sideB, FALSE)],
       [fromPos |-> getEndpointPosition(objs, rectangles, transform, conn.sideA, FALSE),
        toPos |-> getEndpointPosition(objs, rectangles, transform, conn.sideB, TRUE)] >>

\* The horizontal distance of a pair of anchors.
HorizontalDistance(pair) == NAbs(Sub(pair.fromPos.x, pair.toPos.x))

\* The connections with sideA and sideB exchanged.
SwappedConnections ==
    [i \in 1..Len(connections) |->
        [connections[i] EXCEPT !.sideA = connections[i].sideB,
                               !.sideB = connections[i].sideA]]

\* C32: the pair of anchors drawn for a connection is one of its two
\* pairings, its horizontal distance is not larger than that of either
\* pairing, and the pair drawn for the connection with sideA and sideB
\* exchanged is not further apart horizontally.
C32_PairingMinimizesHorizontalDistance ==
    \A i \in 1..Len(connections) :
        LET drawn == drawConnections(objs, rectangles, connections, transform)[i]
            swapped == drawConnections(objs, rectangles, SwappedConnections, transform)[i]
            pairs == Pairings(connections[i])
        IN  /\ drawn \in {pairs[1], pairs[2]}
            /\ ~Gt(HorizontalDistance(drawn), HorizontalDistance(pairs[1]))
            /\ ~Gt(HorizontalDistance(drawn), HorizontalDistance(pairs[2]))
            /\ ~Gt(HorizontalDistance(swapped), HorizontalDistance(drawn))

\* A connection from an entry of an entity to an entry of an entity left
\* of it: the pairing with sideA as the to side is strictly closer and is
\* the one drawn.
C32_Witness ==
    /\ last.op = "addConnection"
    /\ LET pairs == Pairings(connections[Len(connections)])
           drawn == drawConnections(objs, rectangles, connections, transform)
       IN  /\ Lt(HorizontalDistance(pairs[2]), HorizontalDistance(pairs[1]))
           /\ drawn[Len(connections)] = pairs[2]

\* The endpoints of the connections whose rectangle is in the scene.
ResolvedEndpoints ==
    { ep \in { connections[i].sideA : i \in 1..Len(connections) }
              \cup { connections[i].sideB : i \in 1..Len(connections) } :
        ep.rectId \in Keys(rectangles, "key") }

\* The anchor of endpoint ep as the from side (TRUE) or the to side.
AnchorOf(ep, isFrom) == getEndpointPosition(objs, rectangles, transform, ep, isFrom)

\* The vertical middle of row idx (from 0) of the entries of rectangle r,
\* as drawRectangle lays the rows out.
RowMiddle(r, idx) ==
    LET pad == Div(I(padding), transform.scale)
        titleLineHeight == Mul(Div(I(titleFontSize), transform.scale), TitleLineFactor)
        entryLineHeight == Div(I(lineHeight), transform.scale)
        rowTop == Add(Add(Add(r.y, pad), titleLineHeight), Mul(I(idx), entryLineHeight))
    IN  Add(rowTop, Div(entryLineHeight, I(2)))

\* Endpoint ep names an entry of its rectangle r.
NamesEntry(r, ep) == ep.entryId # "" /\ FindEntryIndex(r.data.entries, ep.entryId) >= 0

\* C33: the anchor of an endpoint is on the right edge of its rectangle as
\* the from side and on the left edge as the to side: x + width and x for
\* a whole-rectangle endpoint, and for an entry endpoint the vertical middle
\* of the entry's row at the right or left edge.
C33_AnchorsOnEdges ==
    \A ep \in ResolvedEndpoints :
        LET r == EntityAt(objs, rectangles, ep.rectId)
        IN  /\ ep.entryId = "" =>
                  /\ AnchorOf(ep, TRUE).x = Add(r.x, r.width)
                  /\ AnchorOf(ep, FALSE).x = r.x
            /\ NamesEntry(r, ep) =>
                  /\ AnchorOf(ep, TRUE).x = Add(r.x, r.width)
                  /\ AnchorOf(ep, FALSE).x = r.x
                  /\ AnchorOf(ep, TRUE).y =
                        RowMiddle(r, FindEntryIndex(r.data.entries, ep.entryId))
                  /\ AnchorOf(ep, FALSE).y = AnchorOf(ep, TRUE).y

\* Lemma for C33: the anchor of an entry endpoint is at the vertical middle
\* of the entry's row, one padding inside the right edge as the from side
\* and one padding inside the left edge as the to side; the anchor of a
\* whole-rectangle endpoint is the centre of the rectangle on both sides.
C33_AnchorsAsComputed ==
    \A ep \in ResolvedEndpoints :
        LET r == EntityAt(objs, rectangles, ep.rectId)
            pad == Div(I(padding), transform.scale)
        IN  /\ ep.entryId = "" =>
                  /\ AnchorOf(ep, TRUE) = AnchorOf(ep, FALSE)
                  /\ AnchorOf(ep, TRUE).x = Add(r.x, Div(r.width, I(2)))
                  /\ AnchorOf(ep, TRUE).y = Add(r.y, Div(r.height, I(2)))
            /\ NamesEntry(r, ep) =>
                  /\ AnchorOf(ep, TRUE).x = Sub(Add(r.x, r.width), pad)
                  /\ AnchorOf(ep, FALSE).x = Add(r.x, pad)
                  /\ AnchorOf(ep, TRUE).y =
                        RowMiddle(r, FindEntryIndex(r.data.entries, ep.entryId))
                  /\ AnchorOf(ep, FALSE).y = AnchorOf(ep, TRUE).y

\* The ids of the list the last updateDiagram was called with.
LatestIds == { last.list[i].id : i \in 1..Len(last.list) }

\* C34: after updateDiagram(list) the set of entity ids the chart holds is
\* the set of ids of the list, and every removeRectangle and updateRectangle
\* call the pass made by those ids succeeded.
C34_ChartIdsFollowList ==
    last.op = "updateDiagram" =>
        /\ Keys(rectangles, "key") = LatestIds
        /\ \A k \in 1..Len(last.calls) : last.calls[k].ok

\* Lemma for C34: the webview's own map follows the list, while the chart
\* holds at most one entity, stored under the key undefined.
C34_WebviewMapFollowsList ==
    /\ last.op = "updateDiagram" => Keys(currentRectDataMap, "id") = LatestIds
    /\ Keys(rectangles, "key") \subseteq {Undefined}
    /\ Len(rectangles) <= 1

\* The pointer-down just handled raised the number of tracked pointers to
\* three or more.
ThirdPointerDown == last'.op = "down" /\ Len(pointers') >= 3

\* C35: a pointer-down that raises the number of tracked pointers to three
\* or more starts no gesture and leaves the four gesture records, with
\* their recorded start data, and the cursor as they were.
C35_ThirdPointerStartsNothing ==
    [][ThirdPointerDown => UNCHANGED <<gestures, cursor>>]_vars

\* Lemma for C35: such a pointer-down leaves the pinch record, the
\* transform and the entities as they were.
C35_ThirdPointerKeepsPinch ==
    [][ThirdPointerDown => UNCHANGED <<pinch, transform, scene>>]_vars

\* The Rectangle objects that are values of the entity map.
SceneRefs == { rectangles[i].ref : i \in 1..Len(rectangles) }

\* The Rectangle objects the drag and resize records refer to.
GestureRefs ==
    { draggingRect[k].rect : k \in 1..Len(draggingRect) }
        \cup { resizingRect[k].rect : k \in 1..Len(resizingRect) }

\* C36: whenever a drag or resize record is set, the entity it refers to is
\* a value of the entity map, so that no pointer-move changes the geometry
\* of an entity that is no longer in the scene.
C36_GestureTargetInScene == GestureRefs \subseteq SceneRefs

\* Lemma for C36: the events of the canvas and the operations other than
\* addRectangle and removeRectangle keep the targets of the gestures in
\* the scene.
C36_OnlyAddAndRemoveDetach ==
    [][(/\ GestureRefs \subseteq SceneRefs
        /\ last'.op \notin {"addRectangle", "removeRectangle"}) =>
            (GestureRefs \subseteq SceneRefs)']_vars

\* Every entity is stored under the key equal to its own id.
KeysAreOwnIds ==
    \A i \in 1..Len(rectangles) :
        rectangles[i].key = RectId(objs[rectangles[i].ref])

\* C37: in every reachable state each entity is stored in the entity map
\* under the key equal to its own data.id, whatever addRectangle,
\* updateRectangle and removeRectangle calls were made.
C37_StoredUnderOwnId == KeysAreOwnIds

\* Lemma for C37: every step other than an updateRectangle(id, data) whose
\* data carries another id keeps the entities under their own ids.
C37_OnlyUpdateRenames ==
    [][(/\ KeysAreOwnIds
        /\ ~(last'.op = "updateRectangle" /\ last'.data.id # last'.branch)) =>
            KeysAreOwnIds']_vars

\* A pointer was just lifted or cancelled while a pinch was in progress.
LiftedDuringPinch == last'.op \in {"up", "cancel"} /\ IsSet(pinch)

\* The ids of the two pointers that started the pinch in progress.  The
\* pinch starts when the second entry enters Chart.pointers, and pointers
\* that go down later are inserted behind the two.
PinchPair == {pointers[1].id, pointers[2].id}

\* C38: the scale of a pinch is computed from the two pointers that
\* started it: when one of the two is lifted the pinch ends, also while a
\* third pointer is down, so that the recorded startDist is never applied
\* to another pair of pointers.
C38_PinchKeepsItsPointers ==
    [][(LiftedDuringPinch /\ last'.id \in PinchPair) => pinch' = Unset]_vars

\* Lemma for C38: with exactly two pointers tracked, lifting either of
\* them ends the pinch.
C38_PinchOfTwoEnds ==
    [][(LiftedDuringPinch /\ Len(pointers) = 2 /\ last'.id \in TrackedIds) =>
            pinch' = Unset]_vars

\* The positions in the entity map of the entities with a hit part at
\* world point w.
HitAt(w) ==
    { i \in 1..Len(rectangles) : getHitPart(objs[rectangles[i].ref], w.x, w.y) # Null }

\* The largest element of a non-empty set of numbers.
Largest(S) == CHOOSE i \in S : \A j \in S : j <= i

\* The position in the drawing operations ops of the box of the entity at
\* position i of the entity map.
BoxPosition(ops, i) ==
    CHOOSE k \in 1..Len(ops) : ops[k].op = "box" /\ ops[k].id = rectangles[i].key

\* C39: at a world point where several entities have a hit part, hitTest
\* returns the one inserted last among them, with its hit part, which is
\* the one draw() paints last of them; it returns null only when no entity
\* has a hit part there.
C39_HitTestReturnsTopmost ==
    LET ops == Drawn
    IN  \A sp \in Pts :
            LET w == WorldAt(transform, sp)
                hit == hitTest(objs, rectangles, w.x, w.y)
                under == HitAt(w)
            IN  IF under = {} THEN hit = Unset
                ELSE /\ IsSet(hit)
                     /\ hit[1].rect = rectangles[Largest(under)].ref
                     /\ hit[1].part = getHitPart(objs[hit[1].rect], w.x, w.y)
                     /\ \A i \in under :
                            BoxPosition(ops, i) <= BoxPosition(ops, Largest(under))

\* Two entities overlap at (200,120): the corner of the one inserted first
\* and the inside of the one inserted last, which hitTest returns.
C39_Witness ==
    /\ Len(rectangles) = 2
    /\ HitAt(P(200, 120)) = {1, 2}
    /\ getHitPart(objs[rectangles[1].ref], I(200), I(120)) = "bottom-right"
    /\ hitTest(objs, rectangles, I(200), I(120)) =
            <<[rect |-> rectangles[2].ref, part |-> "inside"]>>

\* C40: a wheel event changes only the transform: the entities with their
\* geometry and data, the connections, the tracked pointers and the four
\* gesture records with their start values are left as they were, in
\* whatever gesture state the event arrives.
C40_WheelChangesOnlyTransform ==
    [][last'.op = "wheel" =>
            UNCHANGED <<objs, rectangles, connections, pointers, draggingRect,
                        resizingRect, panning, pinch>>]_vars

\* A wheel event arrived during a pinch that began as a pan and doubled the
\* scale: both records are still set.
C40_Witness ==
    /\ last.op = "wheel"
    /\ IsSet(pinch)
    /\ IsSet(panning)
    /\ Len(pointers) = 2
    /\ transform.scale = I(2)

====
